---- MODULE Spec2Model ----
(***************************************************************************)
(* A model of the extraction-and-normalization core of the listing         *)
(* cleaner (src/src/cleaning.py, src/src/config.py), of the address        *)
(* standardizer (src/src/address_standardizer.py), of the stages of        *)
(* run_cleaning_pipeline (src/main.py) from the standardization on, of     *)
(* the feature engineering (src/src/feature_engineering.py), of the        *)
(* scraper's retry and page loop (src/src/scraping.py) and of the details  *)
(* step and the alley-width prediction of src/main.py.                     *)
(*                                                                         *)
(* Text.  A title or description is a sequence of tokens.  A token is one  *)
(* word of the listing, written in ASCII without its diacritics (the       *)
(* source's "mặt phố" is <<"mat", "pho">>), or the token "," which stands  *)
(* for a comma attached to the word before it.  The string the code sees   *)
(* is the tokens joined by one space.  A regular expression of the source  *)
(* is a sequence of slots, each slot the set of its alternatives, each     *)
(* alternative a sequence of tokens: \s+ between two words of a pattern is *)
(* adjacency of two tokens, and the comma token breaks it.  The words of   *)
(* the vocabulary are chosen so that none is a proper prefix or suffix of  *)
(* another word a pattern names, which makes a search of the string and a  *)
(* search of the token sequence agree.  Where stripping the diacritics     *)
(* would merge two words, all but one are written with a capital letter,   *)
(* so that a token has as many characters as its word: "ke" is kế and "kE" *)
(* is kề, "tai" is tải and "tAi" is tại, "o" is ở and "O" is ô, "tam" is   *)
(* tầm, "tAm" is tấm and "taM" is tám.                                     *)
(*                                                                         *)
(* Numbers.  Lengths and widths are kept in hundredths (3,5 m is 350), the *)
(* precision round(x, 2) leaves.  The argument of a number parser is       *)
(* Chars(c), a string given character by character.                        *)
(*                                                                         *)
(* The specifications share the variables.  Spec applies the extractors    *)
(* and the number parsers to rows; SpecAddress constructs the standardizer *)
(* and applies it, and its tables are the value of address_std;            *)
(* SpecPipeline applies the feature engineering, the basement tests, the   *)
(* chunking and the alley-width prediction and runs the retry wrapper and  *)
(* the page loop step by step (SpecPipelineFair adds that the page loop    *)
(* keeps running); SpecSave is the calls of save_details_to_csv against    *)
(* the details file; SpecScrape is run_scrape_details with its workers.    *)
(***************************************************************************)
EXTENDS Integers, Sequences, FiniteSets, TLC

VARIABLES
    fn,     \* the operation applied last ("none" before the first)
    row,    \* the raw record (or text) it was applied to
    ret,    \* what it returned: a value, None, or the exception it raised
    runs,   \* "first", or how a repeated application on the same row compared
    address_std,  \* the AddressStandardizer instance, None before one is constructed
    pc,           \* the running multi-step operation and its position, "idle" if none
    tries,        \* retry: the failed invocations of the wrapped function so far
    trace,        \* retry: the invocations and sleeps so far, in order
    urls,         \* scrape_listing_urls: the URLs collected so far
    page_number,  \* scrape_listing_urls: the page to load next
    futures,      \* run_scrape_details: the state of each worker's future
    details_all,  \* run_scrape_details: the records read from the futures so far
    file,         \* the details file: None while it does not exist, else its rows
    saved         \* the save_details_to_csv calls so far, in order

vars == <<fn, row, ret, runs, address_std,
          pc, tries, trace, urls, page_number, futures, details_all, file, saved>>

----------------------------------------------------------------------------
(* Values returned by the extractors. *)

None == [t |-> "None"]
Num(n) == [t |-> "num", n |-> n]
Str(s) == [t |-> "str", s |-> s]
Bool(b) == [t |-> "bool", b |-> b]
Raise(e) == [t |-> "raise", e |-> e]

IsNum(v) == v.t = "num"
IsRaise(v) == v.t = "raise"

\* round(p / q, 2) in hundredths, q > 0: the nearest hundredth, the even one
\* of two equally near
Round2(p, q) ==
    LET twice == 2 * 100 * p
        f == twice \div (2 * q)
        rest == twice - f * 2 * q
    IN  IF rest > q \/ (rest = q /\ f % 2 = 1) THEN f + 1 ELSE f

Min(S) == CHOOSE m \in S : \A x \in S : m <= x
Max(S) == CHOOSE m \in S : \A x \in S : m >= x

\* "if v is not None: return v" and "if v: return v", with what the code
\* does otherwise
OrElse(v, otherwise) == IF v # None THEN v ELSE otherwise

RECURSIVE Flatten(_)
\* the sequences of q one after the other
Flatten(q) == IF q = <<>> THEN <<>> ELSE q[1] \o Flatten(Tail(q))

----------------------------------------------------------------------------
(* Token sequences and the token form of re.search. *)

\* the token at position i, "" outside the text
W(t, i) == IF i \in 1..Len(t) THEN t[i] ELSE ""

\* phrase p occurs in t at position i
Occurs(t, i, p) ==
    /\ i >= 1
    /\ i + Len(p) - 1 <= Len(t)
    /\ \A k \in 1..Len(p) : t[i + k - 1] = p[k]

RECURSIVE Ends(_, _, _, _)
\* the positions right after a match of the slots pat[k..] begun at one of
\* `from`: a slot matches one of its alternatives
Ends(t, from, pat, k) ==
    IF k > Len(pat) THEN from
    ELSE Ends(t, UNION { { i + Len(p) : p \in { q \in pat[k] : Occurs(t, i, q) } } : i \in from },
              pat, k + 1)

\* an optional slot
Opt(alts) == alts \cup {<<>>}

\* the one-word alternatives of a slot
Words(S) == { <<w>> : w \in S }

----------------------------------------------------------------------------
(* Number tokens: the digits, dots and commas a token starts with, and the *)
(* unit glued to them.  src/src/cleaning.py:95 finds this run with         *)
(* ([\d\.,]+).                                                             *)

NumberTokens ==
    { "2", "3", "4", "5", "16", "20", "50", "3m", "5m", "12m", "20m", "50m", "3,5m" }

Lex(tok) ==
    CASE tok = "2"    -> [s |-> <<"2">>, u |-> ""]
      [] tok = "3"    -> [s |-> <<"3">>, u |-> ""]
      [] tok = "4"    -> [s |-> <<"4">>, u |-> ""]
      [] tok = "5"    -> [s |-> <<"5">>, u |-> ""]
      [] tok = "16"   -> [s |-> <<"1", "6">>, u |-> ""]
      [] tok = "20"   -> [s |-> <<"2", "0">>, u |-> ""]
      [] tok = "50"   -> [s |-> <<"5", "0">>, u |-> ""]
      [] tok = "3m"   -> [s |-> <<"3">>, u |-> "m"]
      [] tok = "5m"   -> [s |-> <<"5">>, u |-> "m"]
      [] tok = "12m"  -> [s |-> <<"1", "2">>, u |-> "m"]
      [] tok = "20m"  -> [s |-> <<"2", "0">>, u |-> "m"]
      [] tok = "50m"  -> [s |-> <<"5", "0">>, u |-> "m"]
      [] tok = "3,5m" -> [s |-> <<"3", ",", "5">>, u |-> "m"]
      [] OTHER        -> [s |-> <<>>, u |-> ""]

BareNumbers == { n \in NumberTokens : Lex(n).u = "" }
MetreNumbers == { n \in NumberTokens : Lex(n).u = "m" }

\* \d{1,100}\s*m : digits with the unit glued on, or digits and then the word m
DigitsM == Words(MetreNumbers) \cup { <<n, "m">> : n \in BareNumbers }
\* \d{1,100}\s*m(?:ét)? : the same, or with the unit spelled out
DigitsMet == DigitsM \cup { <<n, "met">> : n \in BareNumbers }

----------------------------------------------------------------------------
(* is_on_main_road, src/src/cleaning.py:51-89 *)

MatRoad == { <<"mat", "pho">>, <<"mat", "duong">>, <<"mat", "tien">> }
Toward ==
    { <<"cach">>, <<"ra">>, <<"gan">>, <<"view">>, <<"huong", "ra">>,
      <<"di", "ra">>, <<"di", "ra", "den">> }

near_but_not_on_patterns ==
    << << Toward, MatRoad >>,
       << { <<"view">>, <<"huong", "ra">> },
          { <<"pho">>, <<"duong">>, <<"mat", "pho">> } >>,
       << DigitsMet, Words({"toi", "ra", "cach"}), MatRoad >>,
       << Words({"khoang"}), DigitsM, Words({"den", "ra", "toi", "cach"}), MatRoad >>,
       << { <<"gan">>, <<"ke">>, <<"ben", "canh">>, <<"kE">> },
          { <<"pho">>, <<"duong">>, <<"mat", "pho">>, <<"mat", "tien">> } >>,
       << Toward, Words({"pho", "duong", "tien"}) >>,
       << { <<"view">>, <<"huong", "ra">> }, Words({"pho", "duong"}) >>,
       << DigitsMet, Words({"den", "toi", "ra", "cach"}), Words({"pho", "duong", "tien"}) >>,
       << Words({"khoang"}), DigitsM, Words({"den", "ra", "toi", "cach"}),
          Words({"pho", "duong", "tien"}) >>,
       << { <<"gan">>, <<"ke">>, <<"ben", "canh">> }, Words({"pho", "duong"}) >>,
       << DigitsM, Opt(Words({"cach", "ra", "toi", "den"})), Words({"pho", "duong", "tien"}) >>,
       << Words({"cach", "ra", "toi", "den"}),
          { <<"pho">>, <<"duong">>, <<"duong", "lon">> } \cup MatRoad,
          DigitsMet >> >>

PropertyNoun ==
    { <<"nha">>, <<"biet", "thu">>, <<"can", "nha">>, <<"lo", "dat">>, <<"dat">>,
      <<"dat", "nen">>, <<"vi", "tri">>, <<"nam">>, <<"toa", "lac">>,
      <<"can", "ho">>, <<"o">> }

direct_main_road_patterns ==
    << << Opt(PropertyNoun), Opt(Words({"ngay"})), MatRoad >>,
       << Opt(PropertyNoun \ { <<"lo", "dat">>, <<"dat">>, <<"dat", "nen">> }),
          Opt(Words({"ngay"})), Words({"tren"}),
          { <<"pho">>, <<"duong">>, <<"duong", "chinh">>, <<"pho", "lon">> } >>,
       << { <<"nam">>, <<"toa", "lac">>, <<"o">> }, Words({"tren", "tAi"}),
          Words({"truc"}), Words({"duong", "pho"}), Words({"chinh", "lon"}) >>,
       << { <<"nha">>, <<"biet", "thu">>, <<"can", "nha">>, <<"can", "ho">> },
          Words({"pho"}) >> >>

\* some pattern of the list matches
AnyMatch(t, pats) == \E k \in 1..Len(pats) : Ends(t, 1..(Len(t) + 1), pats[k], 1) # {}

NearButNotOn(t) == AnyMatch(t, near_but_not_on_patterns)
DirectMainRoad(t) == AnyMatch(t, direct_main_road_patterns)

\* the on-road patterns tried first: the order of the two loops exchanged
is_on_main_road_OnFirst(t) ==
    IF DirectMainRoad(t) THEN TRUE
    ELSE FALSE

is_on_main_road(t) ==
    IF NearButNotOn(t) THEN FALSE
    ELSE IF DirectMainRoad(t) THEN TRUE
    ELSE FALSE

----------------------------------------------------------------------------
(* Numeric strings: sequences of the characters 0-9, "." and ",".          *)

DigitChars == { "0", "1", "2", "3", "4", "5", "6", "7", "8", "9" }

DigitVal(c) ==
    CASE c = "0" -> 0 [] c = "1" -> 1 [] c = "2" -> 2 [] c = "3" -> 3
      [] c = "4" -> 4 [] c = "5" -> 5 [] c = "6" -> 6 [] c = "7" -> 7
      [] c = "8" -> 8 [] c = "9" -> 9

Has(s, c) == \E i \in 1..Len(s) : s[i] = c
Remove(s, c) == SelectSeq(s, LAMBDA x : x # c)
Replace(s, a, b) == [i \in 1..Len(s) |-> IF s[i] = a THEN b ELSE s[i]]

RECURSIVE ToInt(_)
ToInt(ds) == IF ds = <<>> THEN 0 ELSE 10 * ToInt(SubSeq(ds, 1, Len(ds) - 1)) + DigitVal(ds[Len(ds)])

\* float(s) for s over digits and ".": the value in hundredths, None for ValueError.
\* A third fraction digit of 5 or more rounds up, as round(x, 2) does off a tie.
Float(s) ==
    LET dots == { i \in 1..Len(s) : s[i] = "." }
        digits == { i \in 1..Len(s) : s[i] \in DigitChars }
    IN  IF Cardinality(dots) > 1 \/ digits = {} \/ Len(s) # Cardinality(dots) + Cardinality(digits)
        THEN None
        ELSE LET p == IF dots = {} THEN Len(s) + 1 ELSE CHOOSE i \in dots : TRUE
                 ip == SubSeq(s, 1, p - 1)
                 fp == SubSeq(s, p + 1, Len(s))
                 f1 == IF Len(fp) >= 1 THEN DigitVal(fp[1]) ELSE 0
                 f2 == IF Len(fp) >= 2 THEN DigitVal(fp[2]) ELSE 0
                 up == IF Len(fp) >= 3 /\ DigitVal(fp[3]) >= 5 THEN 1 ELSE 0
             IN  Num(100 * ToInt(ip) + 10 * f1 + f2 + up)

\* the same without the removal of the thousands separators
parse_number_run_KeepDots(num_str) == Float(Replace(num_str, ",", "."))

\* DataCleaner._parse_and_clean_number on the numeric run it found
\* (src/src/cleaning.py:277-286)
parse_number_run(num_str) == Float(Replace(Remove(num_str, "."), ",", "."))

\* parse_and_clean_width on the numeric run it found (src/src/cleaning.py:98-111)
parse_width_run(num_str) ==
    LET cleaned_num_str ==
            IF Has(num_str, ",") THEN Replace(Remove(num_str, "."), ",", ".")
            ELSE num_str
        value == Float(cleaned_num_str)
    IN  IF value = None THEN None
        ELSE IF value.n > 2000 THEN Float(Remove(num_str, ","))
        ELSE value

\* the commas that follow one another from word i on
Commas(t, i) ==
    CHOOSE n \in 0..Len(t) :
        /\ \A k \in 0..(n - 1) : W(t, i + k) = ","
        /\ W(t, i + n) # ","

\* ([\d.,]+) begun at word i: the run, <<>> when word i does not begin one
RunAt(t, i) ==
    IF W(t, i) = "," THEN [k \in 1..Commas(t, i) |-> ","]
    ELSE IF W(t, i) \notin NumberTokens THEN <<>>
    ELSE IF Lex(t[i]).u = "" THEN Lex(t[i]).s \o [k \in 1..Commas(t, i + 1) |-> ","]
    ELSE Lex(t[i]).s

\* the words a run begun at word i takes, its unit included when glued to it
RunWords(t, i) ==
    IF W(t, i) = "," THEN Commas(t, i)
    ELSE IF Lex(W(t, i)).u = "" THEN 1 + Commas(t, i + 1)
    ELSE 1

\* a value handed to a number parser: a string given by its words (Text) or
\* by its characters (Chars), or a value that is not a string
NotStr == [k |-> "notstr"]
Text(t) == [k |-> "str", s |-> t]
Chars(c) == [k |-> "chars", s |-> c]

\* re.search(r"([\d\.,]+)", text_value).group(1): the first run of digits,
\* dots and commas of a string, <<>> when there is none
FirstRun(text_value) ==
    LET t == text_value.s
        hits == { i \in 1..Len(t) : t[i] \in NumberTokens \/ t[i] = "," }
        numeric == { i \in 1..Len(t) : t[i] \in DigitChars \cup {".", ","} }
        From(a) == SubSeq(t, a, Max({ b \in a..Len(t) : \A i \in a..b : i \in numeric }))
    IN  IF text_value.k = "chars"
        THEN (IF numeric = {} THEN <<>> ELSE From(Min(numeric)))
        ELSE (IF hits = {} THEN <<>> ELSE RunAt(t, Min(hits)))

\* parse_and_clean_width (src/src/cleaning.py:91-111)
parse_and_clean_width(text_value) ==
    LET Parsed(num_str) == IF num_str = <<>> THEN None ELSE parse_width_run(num_str)
    IN  IF text_value.k \notin {"str", "chars"} THEN None ELSE Parsed(FirstRun(text_value))

\* DataCleaner._parse_and_clean_number (src/src/cleaning.py:265-286)
parse_and_clean_number(text_value) ==
    LET Parsed(num_str) == IF num_str = <<>> THEN None ELSE parse_number_run(num_str)
    IN  IF text_value.k \notin {"str", "chars"} THEN None ELSE Parsed(FirstRun(text_value))

\* Python's truth of an Optional[float]: neither None nor 0.0
Truthy(v) == IsNum(v) /\ v.n # 0
TruthyOrElse(v, otherwise) == IF Truthy(v) THEN v ELSE otherwise

----------------------------------------------------------------------------
(* The token form of re.findall for the patterns that capture a number.    *)
(* A pattern is a sequence of slots:                                       *)
(*   [k |-> "alt", alts |-> <<p1, p2, ...>>]  alternatives, in the order   *)
(*        the regex engine tries them (a greedy optional ends with <<>>);  *)
(*   [k |-> "gap", max |-> n, absorb |-> b]   the window [^.,;:\n\r]{0,n}, *)
(*        greedy; absorb says a \s* follows that takes the space before a  *)
(*        number;                                                          *)
(*   [k |-> "num"]   num_pat, whose digits are the captured group.         *)

Alt(alts) == [k |-> "alt", alts |-> alts]
Gap(n, absorb) == [k |-> "gap", max |-> n, absorb |-> absorb]
NumPat == [k |-> "num"]

\* (\d{1,2}(?:[.,]\d{1,2})?) matches the whole run
NumPatRun(s) ==
    \/ Len(s) \in 1..2 /\ \A i \in 1..Len(s) : s[i] \in DigitChars
    \/ \E p \in 2..3 :
        /\ p < Len(s) /\ Len(s) - p \in 1..2
        /\ s[p] \in {".", ","}
        /\ \A i \in 1..Len(s) : i # p => s[i] \in DigitChars

\* num_pat at position i: the position after it, or 0
MeasureEnd(t, i) ==
    IF W(t, i) \in MetreNumbers /\ NumPatRun(Lex(W(t, i)).s) THEN i + 1
    ELSE IF W(t, i) \in BareNumbers /\ NumPatRun(Lex(W(t, i)).s) /\ W(t, i + 1) \in {"m", "met"}
    THEN i + 2
    ELSE 0

\* the characters of a window of j tokens begun after position i - 1
RECURSIVE WindowChars(_, _, _)
WindowChars(t, i, j) ==
    IF j = 0 THEN 0 ELSE WindowChars(t, i, j - 1) + 1 + Len(t[i + j - 1])

RECURSIVE MatchAt(_, _, _, _, _), TryAlts(_, _, _, _, _, _), TryGap(_, _, _, _, _, _)
\* the matches of pat[k..] begun at i, in the order the engine finds them
MatchAt(t, i, pat, k, cap) ==
    IF k > Len(pat) THEN << [e |-> i, cap |-> cap] >>
    ELSE CASE pat[k].k = "alt" -> TryAlts(t, i, pat, k, cap, 1)
           [] pat[k].k = "gap" -> TryGap(t, i, pat, k, cap, Len(t) - i + 1)
           [] pat[k].k = "num" ->
                IF MeasureEnd(t, i) = 0 THEN <<>>
                ELSE MatchAt(t, MeasureEnd(t, i), pat, k + 1, Lex(t[i]).s)

TryAlts(t, i, pat, k, cap, a) ==
    IF a > Len(pat[k].alts) THEN <<>>
    ELSE (IF Occurs(t, i, pat[k].alts[a])
          THEN MatchAt(t, i + Len(pat[k].alts[a]), pat, k + 1, cap)
          ELSE <<>>)
         \o TryAlts(t, i, pat, k, cap, a + 1)

TryGap(t, i, pat, k, cap, j) ==
    IF j < 0 THEN <<>>
    ELSE LET \* the window may hold j tokens: none is punctuation and its
             \* characters fit
             WindowFits ==
                /\ i + j - 1 <= Len(t)
                /\ \A n \in 0..(j - 1) : t[i + n] # ","
                /\ WindowChars(t, i, j)
                     + (IF pat[k].absorb /\ MeasureEnd(t, i + j) # 0 THEN 0 ELSE 1) <= pat[k].max
         IN
         (IF WindowFits THEN MatchAt(t, i + j, pat, k + 1, cap) ELSE <<>>)
         \o TryGap(t, i, pat, k, cap, j - 1)

RECURSIVE FindAll(_, _, _)
\* re.findall(pat, text): the captured runs of the leftmost, non-overlapping
\* matches, from position i on
FindAll(t, pat, i) ==
    IF i > Len(t) THEN <<>>
    ELSE LET m == MatchAt(t, i, pat, 1, <<>>)
         IN  IF m = <<>> THEN FindAll(t, pat, i + 1)
             ELSE <<m[1].cap>> \o FindAll(t, pat, IF m[1].e > i THEN m[1].e ELSE i + 1)

----------------------------------------------------------------------------
(* The raw record.  title and description are [k |-> "absent"] (no such    *)
(* key), [k |-> "nan"] (the empty CSV cell pandas reads as NaN) or a text. *)
(* A JSON field (other_info, main_info, address_parts) is                  *)
(*   [k |-> "absent"]   no such key                                        *)
(*   [k |-> "nan"]      NaN                                                *)
(*   [k |-> "text"]     a string that is not JSON                          *)
(*   [k |-> "json_obj", m |-> f]   a string holding a JSON object          *)
(*   [k |-> "json_arr", m |-> q]   a string holding a JSON array           *)
(*   [k |-> "json_num"]            a string holding a JSON number          *)
(*   [k |-> "dict", m |-> f]       a dict object, not serialised           *)
(* where f maps labels to values and q is a sequence of items.             *)

Absent == [k |-> "absent"]
NaN == [k |-> "nan"]

\* f"{row.get(key, '')}" of a text field
FString(f) ==
    CASE f.k = "absent" -> <<>>
      [] f.k = "nan"    -> <<"nan">>
      [] f.k = "str"    -> f.s

\* f"{row.get('title', '')} {row.get('description', '')}"
TitleAndDescription(r) == FString(r.title) \o FString(r.description)

Ok(v) == [ok |-> TRUE, v |-> v]
Err(e) == [ok |-> FALSE, e |-> e]

\* json.loads(row.get(field, "{}") or "{}").get(label)
LoadsGet(f, label) ==
    CASE f.k = "absent"   -> Ok(NotStr)
      [] f.k = "nan"      -> Err("TypeError")
      [] f.k = "dict"     -> Err("TypeError")
      [] f.k = "text"     -> Err("JSONDecodeError")
      [] f.k = "json_obj" -> Ok(IF label \in DOMAIN f.m THEN f.m[label] ELSE NotStr)
      [] f.k = "json_arr" -> Err("AttributeError")
      [] f.k = "json_num" -> Err("AttributeError")

\* text contains the phrase as a substring: `kw in norm_text`.  The first word
\* of the phrase may be the end of a longer token: "O" is a proper suffix of
\* the token "to" ("tô" ends in "ô").
Contains(t, p) ==
    \E i \in 1..Len(t) :
        /\ i + Len(p) - 1 <= Len(t)
        /\ t[i] = p[1] \/ <<t[i], p[1]>> = <<"to", "O">>
        /\ \A k \in 2..Len(p) : t[i + k - 1] = p[k]

----------------------------------------------------------------------------
(* DataCleaner.extract_alley_width, src/src/cleaning.py:1036-1124 *)

alley_kw ==
    << <<"ngo">>, <<"hem">>, <<"ngach">>, <<"kiet">>, <<"duong", "vao">>,
       <<"loi", "vao">>, <<"truoc", "nha">>, <<"duong", "truoc", "nha">> >>
vehicle_kw ==
    << <<"oto">>, <<"O", "to">>, <<"xe", "hoi">>, <<"xe", "tai">>,
       <<"ba", "gac">>, <<"xe", "may">> >>
\* approx_kw: (?:rộng\s*)?(?:khoảng|gần|trên\s+dưới|tầm|xấp\s+xỉ)?\s*
approx_kw ==
    << Alt(<< <<"rong">>, <<>> >>),
       Alt(<< <<"khoang">>, <<"gan">>, <<"tren", "duoi">>, <<"tam">>, <<"xap", "xi">>, <<>> >>) >>
\* alley_phrase: alley_kw(?:\s+alley_kw)?
alley_phrase == << Alt(alley_kw), Alt(alley_kw \o << <<>> >>) >>

alley_patterns ==
    << alley_phrase \o <<NumPat>>,
       <<NumPat>> \o alley_phrase,
       alley_phrase \o <<Gap(20, TRUE)>> \o approx_kw \o <<NumPat>>,
       approx_kw \o <<NumPat, Gap(20, FALSE)>> \o alley_phrase,
       alley_phrase \o <<Gap(30, FALSE), Alt(vehicle_kw), Gap(20, TRUE)>> \o approx_kw \o <<NumPat>>,
       approx_kw \o <<NumPat, Gap(20, FALSE), Alt(vehicle_kw), Gap(30, FALSE)>> \o alley_phrase,
       << Alt(<< <<"tiep", "giap">> >>), Gap(20, FALSE) >> \o alley_phrase
           \o <<Gap(20, TRUE)>> \o approx_kw \o <<NumPat>> >>

vehicle_fallback ==
    << [kw |-> <<"ngo", "xe", "tai", "tranh">>, width |-> 1000],
       [kw |-> <<"ngo", "xe", "tai">>, width |-> 800],
       [kw |-> <<"ngo", "O", "to", "tranh">>, width |-> 500],
       [kw |-> <<"ngo", "oto", "tranh">>, width |-> 500],
       [kw |-> <<"O", "to", "do", "cua">>, width |-> 350],
       [kw |-> <<"oto", "vao">>, width |-> 350],
       [kw |-> <<"O", "to", "vao">>, width |-> 350],
       [kw |-> <<"O", "to", "ra">>, width |-> 350],
       [kw |-> <<"oto", "do", "cua">>, width |-> 350],
       [kw |-> <<"O", "to", "quay", "dau">>, width |-> 500],
       [kw |-> <<"hem", "O", "to">>, width |-> 400],
       [kw |-> <<"hem", "xe", "hoi">>, width |-> 400],
       [kw |-> <<"ngo", "O", "to">>, width |-> 400],
       [kw |-> <<"ba", "gac", "tranh">>, width |-> 250],
       [kw |-> <<"xe", "may", "tranh">>, width |-> 250] >>

descriptive_fallback ==
    << [kw |-> <<"ngo", "thong">>, width |-> 500],
       [kw |-> <<"hem", "thong">>, width |-> 300],
       [kw |-> <<"ngo", "hep">>, width |-> 250],
       [kw |-> <<"hem", "hep">>, width |-> 150] >>

Range(q) == { q[i] : i \in 1..Len(q) }

\* the first entry of a fallback table whose keyword the text contains, or 0
FirstHit(t, table) ==
    LET hits == { i \in 1..Len(table) : Contains(t, table[i].kw) }
    IN  IF hits = {} THEN 0 ELSE Min(hits)

extract_alley_width(r) ==
    LET norm_text == TitleAndDescription(r)
        val == LoadsGet(r.other_info, "Duong vao")
        w == IF val.ok THEN parse_and_clean_width(val.v) ELSE None
        \* the truthy widths the patterns capture from the text
        AlleyWidths(t) ==
            { x \in { parse_width_run(c) :
                        c \in UNION { Range(FindAll(t, alley_patterns[k], 1)) :
                                      k \in 1..Len(alley_patterns) } } : Truthy(x) }
        Narrowest(widths) == IF Min(widths) < 1000 THEN Num(Min(widths)) ELSE None
        veh == FirstHit(norm_text, vehicle_fallback)
        des == FirstHit(norm_text, descriptive_fallback)
        FromText(widths) ==
            IF widths # {} THEN Narrowest(widths)
            ELSE IF veh # 0
            THEN (IF vehicle_fallback[veh].width < 1500 THEN Num(vehicle_fallback[veh].width) ELSE None)
            ELSE IF des # 0
            THEN (IF descriptive_fallback[des].width < 1500 THEN Num(descriptive_fallback[des].width) ELSE None)
            ELSE IF is_on_main_road(norm_text) THEN Num(0)
            ELSE None
    IN  IF ~val.ok /\ val.e \notin {"JSONDecodeError", "TypeError"} THEN Raise(val.e)
        ELSE TruthyOrElse(w, FromText({ x.n : x \in AlleyWidths(norm_text) }))

----------------------------------------------------------------------------
(* DataCleaner.extract_num_floors, src/src/cleaning.py:528-697.  Floor      *)
(* counts are in hundredths, as every number of the model.  The texts it   *)
(* is applied to hold no punctuation, so that str.split gives the tokens.  *)

floor_keywords == <<"tang", "lau", "tAm", "me">>
tret_keywords == <<"tret", "trEt", "treT">>

\* the one-word keys; a key of two words ("mười một") is never one word of a split
word_to_num ==
    ("mot" :> 100) @@ ("hai" :> 200) @@ ("ba" :> 300) @@ ("bon" :> 400) @@ ("nAm" :> 500)
    @@ ("sAu" :> 600) @@ ("bay" :> 700) @@ ("bAy" :> 700) @@ ("taM" :> 800)
    @@ ("chin" :> 900) @@ ("muoi" :> 1000)

\* a word with a keyword glued to it: <<what is before the keyword, the keyword>>
Glued == ("3tang" :> <<"3", "tang">>) @@ ("2lau" :> <<"2", "lau">>)

\* .replace('+', ' ').replace('x', ' ').replace('*', ' ') of the lowered text.
\* The empty word "" stands where the replacement leaves two spaces in a row.
ReplaceX(t) ==
    Flatten([i \in 1..Len(t) |->
        CASE t[i] \in {"x", "+", "*"} -> <<"">>
          [] t[i] = "xay"             -> <<"", "ay">>
          [] OTHER                    -> <<t[i]>>])

\* the number a word spells: is_float(word), or a key of word_to_num
FloorNumber(w) ==
    IF w \in BareNumbers THEN Float(Lex(w).s)
    ELSE IF w \in DOMAIN word_to_num THEN Num(word_to_num[w])
    ELSE None

\* one turn of the while loop of extract_separate at word i for one keyword:
\* the value returned, or None when the loop goes on to the next word
SeparateAt(value_list, floor_kw, keyword, i) ==
    LET word == value_list[i]
        glued == word \in DOMAIN Glued /\ Glued[word][2] = keyword
        extracted_floor == IF glued THEN Glued[word][1] ELSE ""
        word_lower == IF i - 4 >= 1 THEN i - 4 ELSE 1
        word_upper == IF i + 4 <= Len(value_list) THEN i + 4 ELSE Len(value_list)
        search_range == SubSeq(value_list, word_lower, word_upper)
        \* of forbidden_pattern only "cải tạo" is free of the letter x
        forbidden_word ==
            \E p \in { <<"giay", "phep", "xay", "dung">>, <<"giay", "phep", "xay">>,
                       <<"phep", "xay", "dung">>, <<"gpxd">>, <<"co", "the", "xay">>,
                       <<"cai", "tao">>, <<"duoc", "phep", "xay">> } :
                Contains(search_range, p)
        additional_floor ==
            { <<"san", "thuong">>, <<"tum">>, <<"ham">>, <<"gac">>, <<"lung">> }
            \cup (IF "tret" \in Range(floor_kw) THEN {} ELSE { <<"tret">> })
        new_check_additional_floor(string, added) ==
            Cardinality({ w \in added : Contains(string, w) })
            + (IF \E n \in 2..(Len(string) - 1) : string[n] = "st" THEN 1 ELSE 0)
            - (IF Contains(string, <<"gac", "lung">>) THEN 1 ELSE 0)
        add_key == new_check_additional_floor(search_range, additional_floor)
        Counted(n) ==
            IF n # None THEN Num(n.n + 100 * add_key)
            ELSE IF add_key > 0 THEN Num(100 * (add_key + 1))
            ELSE None
    IN  IF ~(word = keyword \/ glued) THEN None
        ELSE IF FloorNumber(extracted_floor) # None
        THEN (IF forbidden_word THEN None ELSE Counted(FloorNumber(extracted_floor)))
        ELSE IF i - 1 >= 1
        THEN (IF forbidden_word THEN None
              ELSE IF Contains(SubSeq(value_list, word_lower, i - 1), <<"hien", "trang">>)
              THEN FloorNumber(value_list[i - 1])
              ELSE Counted(FloorNumber(value_list[i - 1])))
        ELSE None

RECURSIVE extract_separate_from(_, _, _, _)
\* the loops of extract_separate from keyword k and word i on: keyword by
\* keyword, the value of the first word at which a turn returns
extract_separate_from(value_list, floor_kw, k, i) ==
    IF k > Len(floor_kw) THEN None
    ELSE IF \A j \in i..Len(value_list) : SeparateAt(value_list, floor_kw, floor_kw[k], j) = None
    THEN extract_separate_from(value_list, floor_kw, k + 1, 1)
    ELSE SeparateAt(value_list, floor_kw, floor_kw[k],
                    Min({ j \in i..Len(value_list) :
                            SeparateAt(value_list, floor_kw, floor_kw[k], j) # None }))

extract_separate(lower_value, floor_kw) ==
    LET value_list == SelectSeq(lower_value, LAMBDA w : w # "")
    IN  extract_separate_from(value_list, floor_kw, 1, 1)

\* nhà (?:\w+\s*){0,5}cũ|bán(?:\s+\S\s*){0,5}đất : "cũ" may begin a longer
\* word ("cũng") and one space follows "nhà"; between "bán" and "đất" stand
\* one to five one-letter words
old_house(t) ==
    LET Between(i, j) == SelectSeq(SubSeq(t, i + 1, j - 1), LAMBDA w : w # "")
    IN  \/ \E i \in 1..Len(t), j \in 1..Len(t) :
              /\ t[i] = "nha" /\ j > i /\ t[j] \in {"cu", "cung"}
              /\ t[i + 1] # ""
              /\ Len(Between(i, j)) <= 5
        \/ \E i \in 1..Len(t), j \in 1..Len(t) :
              /\ t[i] = "ban" /\ j > i /\ t[j] = "dat"
              /\ Len(Between(i, j)) \in 1..5
              /\ \A n \in 1..Len(Between(i, j)) :
                    Between(i, j)[n] \in {"2", "3", "4", "5", "o", "O"}

\* TH2 on one text: the value returned, or None when the code goes on
SingleStory(t) ==
    LET cap4 == { <<"nha", "cap", "4">>, <<"nha", "c4">>, <<"cap", "4">>, <<"nc4">>,
                  <<"nha", "tret">>, <<"nha", "nat">> }
        at == { i \in 1..Len(t) : \E p \in cap4 : Occurs(t, i, p) }
        First(i) ==
            IF i = 0 THEN None
            ELSE IF Occurs(t, i, <<"nha", "tret">>)
            THEN TruthyOrElse(extract_separate(t, floor_keywords), Num(100))
            ELSE Num(100)
    IN  IF old_house(t) THEN Num(0) ELSE First(Min(at \cup {Len(t) + 1}) % (Len(t) + 1))

\* the code after TH1
FloorsFromText(r) ==
    LET has_des == r.description.k = "str"
        has_title == r.title.k = "str"
        lower_des == ReplaceX(r.description.s)
        lower_title == ReplaceX(r.title.s)
        th2_des == IF has_des THEN SingleStory(lower_des) ELSE None
        th2_title == IF has_title THEN SingleStory(lower_title) ELSE None
        th3 == IF has_title THEN extract_separate(lower_title, floor_keywords) ELSE None
        th4 == extract_separate(lower_des, floor_keywords)
        th4_des == extract_separate(lower_des, tret_keywords)
        th4_title == extract_separate(lower_title, tret_keywords)
        \* total_pattern needs a colon after the number: it is empty here
        from_des ==
            TruthyOrElse(th4, TruthyOrElse(th4_des,
                IF ~has_title THEN Raise("UnboundLocalError")
                ELSE TruthyOrElse(th4_title, Num(100))))
        from_title ==
            OrElse(th2_title, TruthyOrElse(th3, IF ~has_des THEN Num(100) ELSE from_des))
    IN  IF r.description.k = "absent" THEN Raise("KeyError")
        ELSE OrElse(th2_des, IF r.title.k = "absent" THEN Raise("KeyError") ELSE from_title)

extract_num_floors(r) ==
    LET other_info == r.other_info
        so_tang == IF "So tang" \in DOMAIN other_info.m THEN other_info.m["So tang"].s ELSE <<>>
    IN  IF other_info.k = "absent" THEN Raise("KeyError")
        ELSE IF other_info.k # "dict" THEN Raise("AttributeError")
        ELSE IF so_tang # <<>>
        THEN (IF so_tang[1] \in BareNumbers THEN Float(Lex(so_tang[1]).s) ELSE Raise("ValueError"))
        ELSE FloorsFromText(r)

----------------------------------------------------------------------------
(* DataCleaner.extract_facade_width and DataCleaner.extract_land_length,   *)
(* src/src/cleaning.py:930-981 and 1001-1034.                              *)

\* str(row.get(key)) of a text field
StrField(f) ==
    CASE f.k = "absent" -> <<"none">>
      [] f.k = "nan"    -> <<"nan">>
      [] f.k = "str"    -> f.s

\* (keyword)\s*:?\s*([\d.,]+\s*m)\b : the run of the leftmost match, <<>> for none
facade_find_run(t) ==
    LET kws == { <<"mat", "tien">>, <<"chieu", "rong">>, <<"chieu", "ngang">>,
                 <<"rong">>, <<"ngang">> }
        MetreRun(i) ==
            IF RunAt(t, i) = <<>> THEN <<>>
            ELSE IF Lex(W(t, i)).u = "m" \/ W(t, i + RunWords(t, i)) = "m" THEN RunAt(t, i)
            ELSE <<>>
        hits == { x[1] + Len(x[2]) :
                    x \in { y \in (1..Len(t)) \X kws : Occurs(t, y[1], y[2]) } }
        found == { j \in hits : MetreRun(j) # <<>> }
    IN  MetreRun(Min(found \cup {Len(t) + 1}))

\* _find of extract_facade_width
facade_find(t) ==
    LET Width(run) == IF run = <<>> THEN None ELSE parse_width_run(run)
    IN  Width(facade_find_run(t))

\* (diện\s+tích|dt|kích\s+thước)\s*[:\-]?\s*([\d.,]+)\s*m?(?:²)?\s*[xX*]\s*([\d.,]+) :
\* the groups 1, 2 and 3 of the leftmost match, <<>> for none
size_match(t) ==
    LET kws == { <<"dien", "tich">>, <<"dt">>, <<"kich", "thuoc">> }
        \* the word after the first number and its unit
        Cross(j) ==
            LET k == j + RunWords(t, j)
            IN  IF Lex(W(t, j)).u = "" /\ W(t, k) = "m" THEN k + 1 ELSE k
        Match(i, p) ==
            LET j == i + Len(p)
            IN  /\ Occurs(t, i, p)
                /\ RunAt(t, j) # <<>>
                /\ W(t, Cross(j)) = "x"
                /\ RunAt(t, Cross(j) + 1) # <<>>
        found == { i \in 1..Len(t) : \E p \in kws : Match(i, p) }
        Groups(i, p) == << p, RunAt(t, i + Len(p)), RunAt(t, Cross(i + Len(p)) + 1) >>
        First(i) == IF i > Len(t) THEN <<>> ELSE Groups(i, CHOOSE p \in kws : Occurs(t, i, p))
    IN  First(Min(found \cup {Len(t) + 1}))

\* json.loads(main_info): the items of the list, or the exception
LoadsItems(f) ==
    CASE f.k = "absent"   -> Ok(<<>>)
      [] f.k = "nan"      -> Err("TypeError")
      [] f.k = "dict"     -> Err("TypeError")
      [] f.k = "text"     -> Err("JSONDecodeError")
      [] f.k = "json_num" -> Err("TypeError")
      [] f.k = "json_arr" -> Ok(f.m)
      [] f.k = "json_obj" -> Ok([i \in 1..Cardinality(DOMAIN f.m) |-> [k |-> "scalar"]])

extract_facade_width(r) ==
    LET val == LoadsGet(r.other_info, "Mat tien")
        w1 == IF val.ok THEN parse_and_clean_width(val.v) ELSE None
        items == LoadsItems(r.main_info)
        \* the first item the loop stops at: one that is no object, or a "Diện tích" with a width
        Stops(it) ==
            \/ it.k = "scalar"
            \/ it.title = "Dien tich" /\ it.ext # <<>> /\ facade_find(it.ext) # None
        stop == IF items.ok THEN { i \in 1..Len(items.v) : Stops(items.v[i]) } ELSE {}
        last == IF items.ok THEN Len(items.v) ELSE 0
        AtStop(i) ==
            IF i > last THEN None
            ELSE IF items.v[i].k = "scalar" THEN Raise("AttributeError")
            ELSE facade_find(items.v[i].ext)
        w3 == OrElse(facade_find(StrField(r.description)), facade_find(StrField(r.title)))
        Smaller(sm) ==
            LET num1 == parse_number_run(sm[2])
                num2 == parse_number_run(sm[3])
            IN  IF sm # <<>> /\ num1 # None /\ num2 # None THEN Num(Min({num1.n, num2.n}))
                ELSE None
    IN  IF ~val.ok /\ val.e \notin {"JSONDecodeError", "TypeError"} THEN Raise(val.e)
        ELSE OrElse(w1, OrElse(AtStop(Min(stop \cup {last + 1})),
                               OrElse(w3, Smaller(size_match(FString(r.description))))))

\* _find of extract_land_length
length_find(t) ==
    LET dai == { i \in 1..Len(t) : t[i] = "dai" /\ RunAt(t, i + 1) # <<>> }
        Larger(m2) ==
            \* group 1 is the keyword
            LET num1 == parse_and_clean_number(Text(m2[1]))
                num2 == parse_number_run(m2[2])
            IN  IF m2 # <<>> /\ num1 # None /\ num2 # None THEN Num(Max({num1.n, num2.n}))
                ELSE None
    IN  IF dai # {} THEN parse_number_run(RunAt(t, Min(dai) + 1))
        ELSE Larger(size_match(t))

extract_land_length(r) ==
    LET val == LoadsGet(r.other_info, "Chieu dai")
        length == IF val.ok THEN parse_and_clean_number(val.v) ELSE None
        from_des == length_find(StrField(r.description))
        from_title == length_find(StrField(r.title))
    IN  IF ~val.ok /\ val.e \notin {"JSONDecodeError", "TypeError"} THEN Raise(val.e)
        ELSE TruthyOrElse(length, TruthyOrElse(from_des, TruthyOrElse(from_title, None)))

----------------------------------------------------------------------------
(* DataCleaner.estimate_remaining_quality, src/src/cleaning.py:881-903.    *)
(* Quality values are in hundredths (0.85 is 85).                          *)

\* src/src/config.py:103-137.  The seventh keyword of the first tier is the
\* two literals the source leaves without a comma between them.
QUALITY_LEVELS ==
    << [quality_val |-> 0, keywords |->
         << <<"tAng", "nha">>, <<"ban", "dat", "tAng", "nha">>, <<"chi", "tinh", "tien", "dat">>,
            <<"dat", "nen">>, <<"nha", "Tam">>, <<"chU", "yeu", "lay", "dat">>,
            <<"tAng", "nhaco", "nha", "nhung", "khong", "dang", "gia">>,
            <<"khong", "tinh", "gia", "trI", "nha">>,
            <<"nha", "cap", "4", "cu">>, <<"nha", "xuong", "cap">>,
            <<"gia", "trI", "dat", "la", "chinh">>,
            <<"ban", "dat">>, <<"sap", "sAp">> >>],
       [quality_val |-> 100, keywords |->
         << <<"moi", "xay">>, <<"xay", "moi">>, <<"moi", "xd">>, <<"moi", "hoan", "thien">>,
            <<"moi", "100%">>, <<"nha", "moi">>,
            <<"vua", "xay", "xong">>, <<"moi", "bAn", "giao">>, <<"moi", "nhan", "nha">>,
            <<"nha", "rat", "moi">>,
            <<"chUa", "o", "lan", "nao">>, <<"nha", "moi", "tInh">>, <<"nha", "moi", "toanh">>,
            <<"nha", "xay", "moi">>, <<"vua", "hoan", "thien">>, <<"con", "thom", "mui", "son">>,
            <<"moi", "hoan", "cong">>, <<"dam", "bao", "ket", "cau", "moi">> >>],
       [quality_val |-> 50, keywords |->
         << <<"nha", "cu">>, <<"cAn", "sua", "chua">>, <<"tiEn", "xay", "moi">>,
            <<"xay", "lAu", "nAm">>, <<"xuong", "cap">>, <<"cu", "nhung", "o", "Tam", "duoc">>,
            <<"cu", "ky">>, <<"nhieu", "nAm", "chUa", "sua">>, <<"cAn", "cai", "tao">>,
            <<"nen", "mong", "yeu">>, <<"cAn", "xay", "lai">>,
            <<"khong", "co", "gia", "trI", "su", "dUng">> >>],
       [quality_val |-> 85, keywords |->
         << <<"nha", "dep">>, <<"con", "moi">>, <<"giu", "gin">>, <<"full", "noi", "that">>,
            <<"thiet", "ke", "hien", "dAi">>,
            <<"nha", "sach", "se">>, <<"o", "ngay">>, <<"o", "luon">>, <<"nha", "gon", "gang">>,
            <<"noi", "that", "cao", "cap">>,
            <<"khong", "cAn", "sua">>, <<"dep", "nhu", "hinh">>, <<"vao", "o", "lien">>,
            <<"noi", "that", "day", "du">>, <<"tiEn", "nghi">>,
            <<"khong", "lOi", "phong", "thuy">>, <<"khong", "loI", "phong", "thuy">>,
            <<"khong", "lOi", "phong", "thuY">>, <<"khong", "loI", "phong", "thuY">>,
            <<"con", "bao", "hanh">>, <<"nha", "chat", "luong", "tot">>, <<"xay", "kien", "cO">>,
            <<"xay", "chac", "chan">> >>] >>

DEFAULT_QUALITY == 75

RECURSIVE SpanExtra(_, _, _, _, _)
\* kw[k] stands at word i.  The characters that the words between the words of
\* the keyword add to the span of the match the engine prefers (each
\* (?:\s*\w+\s*){0,2} is greedy: two words are tried before one, one before
\* none), -1 when the rest of the keyword and the closing \W do not follow.
SpanExtra(t, kw, k, i, closed) ==
    IF k = Len(kw) THEN (IF i < Len(t) \/ closed THEN 0 ELSE -1)
    ELSE LET Skipped(g, rest) ==
                 IF rest = -1 THEN -1
                 ELSE rest + (IF g >= 1 THEN Len(t[i + 1]) + 1 ELSE 0)
                           + (IF g >= 2 THEN Len(t[i + 2]) + 1 ELSE 0)
             Try(g) ==
                 IF /\ \A j \in (i + 1)..(i + g + 1) : W(t, j) # ","
                    /\ W(t, i + g + 1) = kw[k + 1]
                 THEN Skipped(g, SpanExtra(t, kw, k + 1, i + g + 1, closed))
                 ELSE -1
             Or(a, b) == IF a # -1 THEN a ELSE b
         IN  Or(Try(2), Or(Try(1), Try(0)))

\* re.search('\W' + pattern + '\W', text) and fuzz.ratio(qual[0], kw): the
\* ratio 200 * len(kw) / (len(span) + len(kw)) as the fraction num / den, the
\* keyword being a subsequence of the span; <<>> when there is no match.
\* open: a \W stands before the first word; closed: one stands after the last.
KeywordRatio(t, kw, open, closed) ==
    LET starts == { i \in 1..Len(t) :
                      /\ t[i] = kw[1]
                      /\ i > 1 \/ open
                      /\ SpanExtra(t, kw, 1, i, closed) # -1 }
        chars == [k \in 1..Len(kw) |-> Len(kw[k]) + 1]
        len_kw == Len(Flatten([k \in 1..Len(kw) |-> [c \in 1..chars[k] |-> 0]])) - 1
        len_span == len_kw + 2 + SpanExtra(t, kw, 1, Min(starts), closed)
    IN  IF starts = {} THEN <<>> ELSE [num |-> 200 * len_kw, den |-> len_span + len_kw]

estimate_remaining_quality(r) ==
    LET text == FString(r.title) \o FString(r.description)
        open == FString(r.title) = <<>>
        closed == FString(r.description) = <<>>
        Ratio(q, n) == KeywordRatio(text, QUALITY_LEVELS[q].keywords[n], open, closed)
        Matching(q) == { n \in 1..Len(QUALITY_LEVELS[q].keywords) : Ratio(q, n) # <<>> }
        \* result[quality_val] = [qual.group(0), ratio] keeps the last keyword of the tier
        result == { q \in 1..Len(QUALITY_LEVELS) : Matching(q) # {} }
        Score(q) ==
            LET bonus == IF QUALITY_LEVELS[q].quality_val \in {0, 100} THEN 3 ELSE 0
                With(ratio) ==
                    [num |-> ratio.num + bonus * ratio.den, den |-> ratio.den,
                     quality_val |-> QUALITY_LEVELS[q].quality_val]
            IN  With(Ratio(q, Max(Matching(q))))
        \* the order of the key (x[1][1], x[0])
        Less(a, b) ==
            \/ a.num * b.den < b.num * a.den
            \/ a.num * b.den = b.num * a.den /\ a.quality_val < b.quality_val
        Best(res) ==
            IF res = {} THEN Num(DEFAULT_QUALITY)
            ELSE Num(QUALITY_LEVELS[CHOOSE q \in res :
                        \A p \in res : p = q \/ Less(Score(p), Score(q))].quality_val)
    IN  Best(result)

----------------------------------------------------------------------------
(* DataCleaner.extract_land_shape, src/src/cleaning.py:913-928.            *)

\* src/src/config.py:75-101, in the order of the dict
SHAPE_KEYWORDS ==
    << [shape |-> "No hau", kws |->
         << <<"no", "hau">>, <<"hau", "no">>, <<"duoi", "no">>, <<"phia", "sau", "no">> >>],
       [shape |-> "Thop hau", kws |->
         << <<"thop", "hau">>, <<"top", "hau">>, <<"hau", "top">>, <<"duoi", "top">> >>],
       [shape |-> "Chu nhat vat goc", kws |->
         << <<"vat", "goc">>, <<"cat", "goc">>, <<"bo", "goc">>, <<"xeo", "goc">> >>],
       [shape |-> "Chu L", kws |-> << <<"chu", "l">>, <<"hinh", "l">> >>],
       [shape |-> "Chu L hep ngang", kws |->
         << <<"chu", "l", "hep">>, <<"hinh", "l", "hep">> >>],
       [shape |-> "Chu L rong ngang", kws |->
         << <<"chu", "l", "rong">>, <<"hinh", "l", "rong">> >>],
       [shape |-> "Chu T", kws |->
         << <<"chu", "t">>, <<"hinh", "t">>, <<"thong", "ngang">> >>],
       [shape |-> "Chu U", kws |->
         << <<"chu", "u">>, <<"hinh", "u">>, <<"mong", "ngua">> >>],
       [shape |-> "Tam giac", kws |-> << <<"TaM", "giac">> >>],
       [shape |-> "Hinh quat", kws |->
         << <<"hinh", "quat">>, <<"nan", "quat">>, <<"xoe", "quat">> >>],
       [shape |-> "Da giac tu 5 canh, meo mo", kws |->
         << <<"meo", "mo">>, <<"meo">>, <<"mop", "meo">> >>],
       [shape |-> "Phuc tap, nhieu goc nhon/tu", kws |->
         << <<"nhieu", "goc", "nhon">>, <<"hinh", "dAng", "phuc", "tap">> >>],
       [shape |-> "Chu nhat", kws |->
         << <<"vuong", "vuc">>, <<"vuong", "van">>, <<"vuong", "dep">>,
            <<"vuong", "nhu">>, <<"hinh", "chu", "nhat">>, <<"deu", "chAn", "chaN">>,
            <<"khong", "lOi", "phong", "thuy">> >>] >>

\* NEGATION_PATTERNS is imported from src.config, which does not set it.  Here
\* it is the negation window: a marker, at most `window` words, the keyword.
NEGATION_PATTERNS == [markers |-> {"khong", "chUa"}, window |-> 2]

\* the occurrence of kw at word i stands in a negation window
NegatedAt(t, kw, i) ==
    \E g \in 0..NEGATION_PATTERNS.window :
        /\ W(t, i - g - 1) \in NEGATION_PATTERNS.markers
        /\ \A j \in (i - g)..(i - 1) : t[j] # ","

extract_land_shape(r) ==
    LET text == FString(r.title) \o FString(r.description)
        \* is_negated(text, kw), src/src/cleaning.py:915-919: re.search over the
        \* whole text, so one negated occurrence of kw negates kw
        is_negated(t, kw) == \E i \in 1..Len(t) : Occurs(t, i, kw) /\ NegatedAt(t, kw, i)
        Selects(kw) == (\E i \in 1..Len(text) : Occurs(text, i, kw)) /\ ~is_negated(text, kw)
        hits == { n \in 1..Len(SHAPE_KEYWORDS) :
                    \E k \in 1..Len(SHAPE_KEYWORDS[n].kws) : Selects(SHAPE_KEYWORDS[n].kws[k]) }
    IN  IF hits # {} THEN Str(SHAPE_KEYWORDS[Min(hits)].shape) ELSE Str("Chu nhat")

----------------------------------------------------------------------------
(* DataCleaner.extract_distance_to_main_road, src/src/cleaning.py:1126-1198. *)
(* The patterns of this extractor name classes of characters, so a text it *)
(* is applied to is made of the words below, whose letters are known.      *)

\* the words of the texts that are made of characters of [a-z0-9/]
AsciiWhole == (NumberTokens \ {"3,5m"}) \cup {"m", "ra", "nan"}

\* the alternatives of road_prefixes that are fixed words
road_prefixes ==
    { <<"truc", "chinh">>, <<"duong", "lon">>, <<"duong", "chinh">>, <<"duong", "O", "to">>,
      <<"mat", "pho">>, <<"mat", "tien">>, <<"mat", "duong">>,
      <<"O", "to", "do">>, <<"chO", "do", "xe">>, <<"O", "to", "dAu">> }

\* road_kw at word i: the position after it, 0 when it does not match.  whole
\* asks that [a-z0-9/]+ of đường\s+[a-z0-9/]+ and phố\s+[a-z0-9/]+ end on the
\* end of a word, as it must for \s*\d to follow.
RoadEnd(t, i, whole) ==
    LET \* the words of the texts that begin with a character of [a-z0-9/]
        AsciiInitial ==
            NumberTokens \cup
            { "m", "met", "cach", "ra", "khoang", "pho", "mat", "lon", "chinh", "truc", "cho",
              "ngo", "hem", "rong", "nong", "hep", "saU", "gan", "nha", "nan" }
    IN
    IF /\ W(t, i) \in {"duong", "pho"}
       /\ W(t, i + 1) \in (IF whole THEN AsciiWhole ELSE AsciiInitial)
    THEN i + 2
    ELSE IF \E p \in road_prefixes : Occurs(t, i, p)
    THEN i + Len(CHOOSE p \in road_prefixes : Occurs(t, i, p))
    ELSE 0

NoMatch == [e |-> 0]

\* dist_cap = (\d{1,3}(?:[\.,]\d{1,2})?)\s*(km|m|mét)? at word i, the captured
\* number and unit and the position after them.  last: the pattern ends here,
\* and the optional unit takes what it can.
DistCap(t, i, last) ==
    IF W(t, i) \notin NumberTokens THEN NoMatch
    ELSE IF Lex(t[i]).u # "" THEN [e |-> i + 1, num |-> Lex(t[i]).s, unit |-> Lex(t[i]).u]
    \* when it is last, (km|m|mét)? takes the first letter of mặt as well
    ELSE IF W(t, i + 1) \in (IF last THEN {"m", "met", "mat"} ELSE {"m", "met"})
    THEN [e |-> i + 2, num |-> Lex(t[i]).s, unit |-> IF last THEN "m" ELSE t[i + 1]]
    ELSE [e |-> i + 1, num |-> Lex(t[i]).s, unit |-> ""]

RECURSIVE DistFindAll(_, _, _)
\* re.findall(patt, text) for patt1, patt3 and patt4 (k = 1, 3, 4): the
\* leftmost matches that do not overlap, from word i on
DistFindAll(t, k, i) ==
    IF i > Len(t) THEN <<>>
    ELSE LET
             \* patt1 = road_kw.*?(cách|khoảng|tầm|tới|ra|đến)\s*dist_cap begun at word i
             patt1 ==
                 LET r == RoadEnd(t, i, FALSE)
                     at == { j \in r..Len(t) :
                               /\ t[j] \in {"cach", "khoang", "tam", "toi", "ra", "den"}
                               /\ DistCap(t, j + 1, TRUE) # NoMatch }
                 IN  IF r = 0 \/ at = {} THEN NoMatch ELSE DistCap(t, Min(at) + 1, TRUE)

             \* patt3 = dist_cap\s*(?:đến|tới|ra|cách)?\s*road_kw begun at word i
             patt3 ==
                 LET d == DistCap(t, i, FALSE)
                     End(c) ==
                         IF W(t, c.e) \in {"den", "toi", "ra", "cach"} /\ RoadEnd(t, c.e + 1, FALSE) # 0
                         THEN RoadEnd(t, c.e + 1, FALSE)
                         ELSE RoadEnd(t, c.e, FALSE)
                 IN  IF d = NoMatch THEN NoMatch
                     ELSE IF End(d) # 0 THEN [d EXCEPT !.e = End(d)]
                     ELSE NoMatch

             \* patt4 = (?:cách|ra|tới|đến)\s+road_kw\s*dist_cap begun at word i.  When the
             \* word after đường or phố is a number that no number follows, [a-z0-9/]+
             \* gives back its last digit, which dist_cap captures.
             patt4 ==
                 LET r == RoadEnd(t, i + 1, TRUE)
                     x == W(t, i + 2)
                     digits == Lex(x).s
                 IN  IF W(t, i) \notin {"cach", "ra", "toi", "den"} THEN NoMatch
                     ELSE IF r # 0 /\ DistCap(t, r, TRUE) # NoMatch THEN DistCap(t, r, TRUE)
                     ELSE IF /\ W(t, i + 1) \in {"duong", "pho"}
                             /\ x \in NumberTokens /\ x \in AsciiWhole /\ Len(digits) >= 2
                     THEN [DistCap(t, i + 2, TRUE) EXCEPT !.num = <<digits[Len(digits)]>>]
                     ELSE NoMatch

             Scan(m) ==
                 IF m = NoMatch THEN DistFindAll(t, k, i + 1)
                 ELSE <<m>> \o DistFindAll(t, k, m.e)
         IN  Scan(CASE k = 1 -> patt1 [] k = 3 -> patt3 [] k = 4 -> patt4)

\* the values extract_distance_to_main_road may return for a row
extract_distance_to_main_road(r) ==
    LET text == FString(r.title) \o FString(r.description)
        \* _convert(num, unit), in hundredths
        convert(num_str, unit) ==
            LET cleaned_num == parse_number_run(num_str)
            IN  IF cleaned_num = None THEN None
                ELSE IF unit = "km" THEN Num(cleaned_num.n * 1000) ELSE cleaned_num
        \* The distances the loop over the matches keeps.  A match of patt2
        \* holds the groups (number, unit, word), so its match[-2] is the unit,
        \* which _convert turns into None; place_of_interest is searched in the
        \* groups only, which are numbers, units and the words of approach, and
        \* never finds a place.
        Dists(t) ==
            LET matches == Flatten([k \in 1..3 |-> DistFindAll(t, <<1, 3, 4>>[k], 1)])
                converted == { convert(m.num, IF m.unit = "" THEN "m" ELSE m.unit) :
                               m \in Range(matches) }
            IN  { c.n : c \in { x \in converted : x # None /\ 0 < x.n /\ x.n < 100000 } }
        near_road_phrases ==
            << << Words({"ngo"}), Words({"nong", "rong", "thoang"}) >>,
               << Words({"ngo", "hem"}), Words({"gan"}),
                  { <<"duong">>, <<"pho">>, <<"mat", "pho">>, <<"mat", "duong">> } >> >>
        narrow_alley_phrases ==
            << << Words({"ngo", "hem"}), { <<"hep">>, <<"xe", "may">> } >> >>
        deep_alley_phrases == << << Words({"hem"}), Words({"saU"}) >> >>
        \* random.randint(10, 200)
        RandomDistances == { Num(100 * d) : d \in 10..200 }
        Nearest(dists) ==
            IF dists # {} THEN {Num(Min(dists))}
            ELSE IF AnyMatch(text, near_road_phrases) THEN {Num(1000)}
            ELSE IF AnyMatch(text, narrow_alley_phrases) THEN {Num(2000)}
            ELSE IF AnyMatch(text, deep_alley_phrases) THEN {Num(3000)}
            ELSE RandomDistances
    IN  IF text = <<>> THEN {None}
        ELSE IF is_on_main_road(text) THEN {Num(0)}
        ELSE Nearest(Dists(text))

----------------------------------------------------------------------------
(* DataCleaner.extract_total_area, src/src/cleaning.py:506-526.  An item   *)
(* of main_info is here [k |-> "obj", title, value] or a scalar.           *)

extract_total_area(r) ==
    LET items == LoadsItems(r.main_info)
        Area(it) == parse_and_clean_number(it.value)
        \* the first item the loop stops at: one that is no object, or a "Diện tích" with a number
        Stops(it) == it.k = "scalar" \/ (it.title = "Dien tich" /\ Area(it) # None)
        stop == IF items.ok THEN { i \in 1..Len(items.v) : Stops(items.v[i]) } ELSE {}
        val == LoadsGet(r.other_info, "Dien tich")
        last == IF items.ok THEN Len(items.v) ELSE 0
        AtStop(i) ==
            IF i > last THEN None
            ELSE IF items.v[i].k = "scalar" THEN Raise("AttributeError")
            ELSE Area(items.v[i])
        from_main ==
            IF r.main_info.k \in {"absent", "nan"} THEN None
            ELSE IF ~items.ok /\ items.e # "JSONDecodeError" THEN Raise(items.e)
            ELSE AtStop(Min(stop \cup {last + 1}))
        from_other ==
            IF r.other_info.k \in {"absent", "nan"} THEN None
            ELSE IF ~val.ok /\ val.e \notin {"JSONDecodeError", "TypeError"} THEN Raise(val.e)
            ELSE IF val.ok THEN parse_and_clean_number(val.v)
            ELSE None
    IN  OrElse(from_main, from_other)

----------------------------------------------------------------------------
(* Inputs.  A text is a few phrases one after the other. *)

\* the texts of at most n phrases of P
Texts(P, n) == UNION { { Flatten(q) : q \in [1..k -> P] } : k \in 0..n }

MaxRoadPhrases == 3
MaxAlleyPhrases == 2
MaxFloorPhrases == 2
MaxSizePhrases == 2
MaxQualityPhrases == 3
MaxShapePhrases == 3
MaxDistancePhrases == 2
MaxNumberLen == 5


\* the side panel other_info, as the scraper may have stored it
JsonObj(m) == [k |-> "json_obj", m |-> m]
Dict(m) == [k |-> "dict", m |-> m]
Label(l, v) == [x \in {l} |-> Text(v)]

Row(title, description, other_info) ==
    [title |-> title, description |-> description, other_info |-> other_info]


SizeRows ==
    { [title |-> Absent, description |-> Text(d), other_info |-> o, main_info |-> m] :
        d \in Texts({ <<"dt", "4", "x", "16">>, <<"dien", "tich", "20m", "x", "5m">>,
                      <<"rong", "5m">>, <<"dai", "16">>, <<"nha">>, <<",">>,
                      <<"ngang", "4", "m">> },
                    MaxSizePhrases),
        o \in { Absent, NaN, [k |-> "json_arr", m |-> <<>>],
                JsonObj(Label("Mat tien", <<"5m">>)), JsonObj(Label("Chieu dai", <<"20", "m">>)) },
        m \in { Absent, [k |-> "text"], [k |-> "json_arr", m |-> << [k |-> "scalar"] >>],
                [k |-> "json_arr", m |-> << [k |-> "obj", title |-> "Dien tich", ext |-> <<"rong", "5m">>] >>] } }

AreaItem(title, value) == [k |-> "obj", title |-> title, value |-> value]


\* the strings handed to the number parsers, by their characters: "m" stands
\* for every character that is no digit, dot or comma.  The digits are such
\* that no value lies halfway between two hundredths.
NumberValues ==
    {NotStr} \cup
    { Chars(c) : c \in UNION { [1..k -> {"2", "7", ".", ",", "m"}] : k \in 0..MaxNumberLen } }


----------------------------------------------------------------------------
(* The address standardizer (src/src/address_standardizer.py).             *)
(*                                                                         *)
(* A name is a sequence of pieces.  A piece is an administrative prefix    *)
(* with the space that follows it ("Quan " is the source's 'Quận '), a     *)
(* name the source spells out ("Long Dat"), a punctuation mark or one      *)
(* character of a name; str.replace(piece, '') removes the piece and       *)
(* str.startswith(prefix) looks at the first piece.  fuzz.ratio counts     *)
(* characters: a piece counts for as many as it has and is matched whole,  *)
(* the one-character pieces of the names being characters that no longer   *)
(* piece holds.                                                            *)

\* dict[k] = v: a dict is the sequence of its items in insertion order
Put(d, k, v) ==
    IF \E i \in 1..Len(d) : d[i][1] = k
    THEN [i \in 1..Len(d) |-> IF d[i][1] = k THEN <<k, v>> ELSE d[i]]
    ELSE Append(d, <<k, v>>)

RECURSIVE DictOf(_)
\* the dict filled with the items of q, one assignment after the other
DictOf(items) ==
    IF items = <<>> THEN <<>>
    ELSE Put(DictOf(SubSeq(items, 1, Len(items) - 1)), items[Len(items)][1], items[Len(items)][2])

Keys(d) == { d[i][1] : i \in 1..Len(d) }

\* d[k], for k a key of d
Get(d, k) == d[CHOOSE i \in 1..Len(d) : d[i][1] = k][2]

\* The records of the reference data: the province names, and the district
\* and ward names with the name of their parent, in the order of the tables
AdminData ==
    [ provinces |-> << <<"Thanh pho ", "Ha Noi">>,
                       <<"Thanh pho ", "Ho Chi Minh">>,
                       <<"Tinh ", "Ba Ria - Vung Tau">> >>,
      districts |-> << [district_name |-> <<"Quan ", "x", "y">>, province_name |-> <<"Thanh pho ", "Ha Noi">>],
                       [district_name |-> <<"Huyen ", "x", "y", "z">>, province_name |-> <<"Thanh pho ", "Ha Noi">>],
                       [district_name |-> <<"Quan ", "z">>, province_name |-> <<"Thanh pho ", "Ho Chi Minh">>],
                       [district_name |-> <<"Thanh pho ", "Thu Duc">>, province_name |-> <<"Thanh pho ", "Ho Chi Minh">>],
                       [district_name |-> <<"Huyen ", "x", "y">>, province_name |-> <<"Tinh ", "Ba Ria - Vung Tau">>] >>,
      wards |-> << [ward_name |-> <<"Phuong ", "x">>, district_name |-> <<"Quan ", "x", "y">>],
                   [ward_name |-> <<"Xa ", "x", "z">>, district_name |-> <<"Quan ", "x", "y">>],
                   [ward_name |-> <<"Thi tran ", "y">>, district_name |-> <<"Huyen ", "x", "y", "z">>] >> ]

\* name with every piece of `pieces` taken out: the chain of .replace(p, '')
Strip(name, pieces) == SelectSeq(name, LAMBDA p : p \notin pieces)

\* _load_data once the tables are read: the reverse lookup maps
load_data(data) ==
    LET province_prefix == {"Thanh pho ", "Tinh "}
        district_prefix == {"Thanh pho ", "Thanh Pho ", "Quan ", "Huyen ", "Thi xa ", "Thi Xa "}
        ward_prefix == {"Xa ", "Phuong ", "Thi tran ", "Thi Tran "}
        HoChiMinh == <<"Thanh pho ", "Ho Chi Minh">>
        BaRiaVungTau == <<"Tinh ", "Ba Ria - Vung Tau">>
        ThuDuc == <<"Thanh pho ", "Thu Duc">>
        reverse_province_map ==
            Put(DictOf([i \in 1..Len(data.provinces) |->
                        <<Strip(data.provinces[i], province_prefix), data.provinces[i]>>]),
                <<"Ba Ria Vung Tau">>, BaRiaVungTau)
        Districts(p) ==
            LET rows == SelectSeq(data.districts, LAMBDA r : r.province_name = p)
            IN  DictOf([i \in 1..Len(rows) |->
                        <<Strip(rows[i].district_name, district_prefix), rows[i].district_name>>])
        Overridden(p) ==
            IF p = BaRiaVungTau THEN Put(Districts(p), <<"Long Dat">>, <<"Huyen ", "Long Dat">>)
            ELSE IF p = HoChiMinh
            THEN Put(Put(Districts(p), <<"Quan ", "2">>, ThuDuc), <<"Quan ", "9">>, ThuDuc)
            ELSE Districts(p)
        reverse_district ==
            DictOf([i \in 1..Len(data.districts) |->
                    <<data.districts[i].province_name, Overridden(data.districts[i].province_name)>>])
        Wards(d) ==
            LET rows == SelectSeq(data.wards, LAMBDA r : r.district_name = d)
            IN  DictOf([i \in 1..Len(rows) |->
                        <<Strip(rows[i].ward_name, ward_prefix), rows[i].ward_name>>])
        WardsOf(districts) ==
            DictOf([i \in 1..Len(districts) |-> <<districts[i][2], Wards(districts[i][2])>>])
        reverse_ward ==
            [i \in 1..Len(reverse_district) |->
                <<reverse_district[i][1], WardsOf(reverse_district[i][2])>>]
    IN  [t |-> "AddressStandardizer",
         reverse_province_map |-> reverse_province_map,
         reverse_district |-> reverse_district,
         reverse_ward |-> reverse_ward]

\* AddressStandardizer(*args) where the files are in state `files`: the
\* instance, or the exception the construction ends with
AddressStandardizer(args, files) ==
    IF Len(args) # 4 THEN Raise("TypeError")
    ELSE CASE files = "missing" -> Raise("FileNotFoundError")
           [] files = "bad sql" -> Raise("sqlite3.Error")
           [] files = "ok"      -> load_data(AdminData)

\* A cell of a data frame is Text(name), NaN, Null (Python's None),
\* [k |-> "num", n |-> n] or, for a column the row does not have, Absent.
Null == [k |-> "null"]

\* standardize_province with the lookup made before the punctuation is removed
standardize_province_LookupFirst(self, province_name) ==
    IF province_name.k # "str"
    THEN (IF province_name.k = "num" THEN Num(province_name.n) ELSE None)
    ELSE IF province_name.s \in Keys(self.reverse_province_map)
         THEN Str(Get(self.reverse_province_map, province_name.s))
         ELSE Str(Strip(province_name.s, {".", ",", "?", "!"}))

standardize_province(self, province_name) ==
    IF province_name.k # "str"
    THEN (IF province_name.k = "num" THEN Num(province_name.n) ELSE None)
    ELSE LET stripped == Strip(province_name.s, {".", ",", "?", "!"})
         IN  IF stripped \in Keys(self.reverse_province_map)
             THEN Str(Get(self.reverse_province_map, stripped))
             ELSE Str(stripped)

RECURSIVE len(_)
\* len(name): the characters of a name
len(name) ==
    IF name = <<>> THEN 0
    ELSE len(Tail(name)) +
         ( CASE name[1] \in {"Thanh pho ", "Thanh Pho "} -> 10
             [] name[1] \in {"Thi tran ", "Thi Tran "} -> 9
             [] name[1] = "Long Dat" -> 8
             [] name[1] \in {"Thi xa ", "Thi Xa ", "Phuong ", "Thu Duc"} -> 7
             [] name[1] \in {"Huyen ", "phuong"} -> 6
             [] name[1] \in {"Quan ", "Tinh "} -> 5
             [] name[1] = "tran" -> 4
             [] name[1] \in {"Xa ", "Dao", "thi", "Thi"} -> 3
             [] name[1] \in {"xa", "Xa"} -> 2
             [] OTHER -> 1 )

RECURSIVE LCS(_, _)
\* the characters of the longest common subsequence of two names
LCS(a, b) ==
    IF a = <<>> \/ b = <<>> THEN 0
    ELSE IF a[1] = b[1] THEN len(<<a[1]>>) + LCS(Tail(a), Tail(b))
    ELSE Max({ LCS(Tail(a), b), LCS(a, Tail(b)) })

\* fuzz.ratio(a, b), a fraction: 100 * (1 - indel distance / (len(a) + len(b)))
ratio(a, b) ==
    IF len(a) + len(b) = 0 THEN [num |-> 100, den |-> 1]
    ELSE [num |-> 200 * LCS(a, b), den |-> len(a) + len(b)]

\* the lookup both standardize_district and matching() of standardize_ward
\* make in a dict of names: the exact key, else the first key, in the order
\* of the dict, with a similarity of 66 or more, else None
Lookup(d, value) ==
    LET similar == { i \in 1..Len(d) : ratio(value, d[i][1]).num >= 66 * ratio(value, d[i][1]).den }
    IN  IF value \in Keys(d) THEN Str(Get(d, value))
        ELSE IF similar # {} THEN Str(d[Min(similar)][2])
        ELSE None

\* standardize_district with the province looked up before the prefixes are
\* tested
standardize_district_ProvinceFirst(self, r) ==
    LET prefix == {"Thanh pho ", "Thanh Pho ", "Quan ", "Huyen ", "Thi xa ", "Thi Xa ", "Dao"}
        district_value == r.district
        province == r.province
    IN  IF r.k # "row" THEN Raise("TypeError")
        ELSE IF district_value = Absent THEN Raise("KeyError")
        ELSE IF district_value.k # "str" THEN None
        ELSE IF province = Absent THEN Raise("KeyError")
        ELSE IF province.k # "str" \/ province.s \notin Keys(self.reverse_district) THEN Raise("KeyError")
        ELSE IF district_value.s \in { <<"Quan ", "2">>, <<"Quan ", "9">> }
        THEN Str(<<"Thanh pho ", "Thu Duc">>)
        ELSE IF district_value.s # <<>> /\ district_value.s[1] \in prefix THEN Str(district_value.s)
        ELSE Lookup(Get(self.reverse_district, province.s), district_value.s)

standardize_district(self, r) ==
    LET prefix == {"Thanh pho ", "Thanh Pho ", "Quan ", "Huyen ", "Thi xa ", "Thi Xa ", "Dao"}
        district_value == r.district
        province == r.province
    IN  IF r.k # "row" THEN Raise("TypeError")
        ELSE IF district_value = Absent THEN Raise("KeyError")
        ELSE IF district_value.k # "str" THEN None
        ELSE IF district_value.s \in { <<"Quan ", "2">>, <<"Quan ", "9">> }
        THEN Str(<<"Thanh pho ", "Thu Duc">>)
        ELSE IF district_value.s # <<>> /\ district_value.s[1] \in prefix THEN Str(district_value.s)
        ELSE IF province = Absent THEN Raise("KeyError")
        ELSE IF province.k # "str" \/ province.s \notin Keys(self.reverse_district) THEN Raise("KeyError")
        ELSE Lookup(Get(self.reverse_district, province.s), district_value.s)

\* A short address is the sequence of its comma-separated segments, each the
\* sequence of its words; unicodedata.normalize leaves a name as it is.
standardize_ward(self, r) ==
    LET ward_value == r.ward
        district_value == r.district
        province_value == r.province
        short_add == r.short_address
        prefix == {"Xa ", "Phuong ", "Thi tran ", "Thi Tran "}
        lower(w) == CASE w = "Xa" -> "xa" [] w = "Thi" -> "thi" [] OTHER -> w
        capitalize(w) ==
            CASE w = "xa" -> "Xa" [] w = "phuong" -> "Phuong" [] w = "thi" -> "Thi"
              [] w = "tran" -> "Tran" [] w = "x" -> "X" [] w = "y" -> "Y" [] OTHER -> w
        matching(ward, district, province) ==
            IF district = Absent \/ province = Absent THEN Raise("KeyError")
            ELSE IF province.k # "str" \/ province.s \notin Keys(self.reverse_ward) THEN Raise("KeyError")
            ELSE IF district.k # "str" \/ district.s \notin Keys(Get(self.reverse_ward, province.s))
            THEN Raise("KeyError")
            ELSE Lookup(Get(Get(self.reverse_ward, province.s), district.s), ward)
        \* re.search('(kw [\w\s]+)', short_add.lower()), its words capitalized:
        \* the keyword and the words after it up to the end of their segment
        Found(kw) ==
            LET at == { m \in UNION { { <<s, i>> : i \in 1..Len(short_add.s[s]) } : s \in 1..Len(short_add.s) } :
                          /\ m[2] + Len(kw) <= Len(short_add.s[m[1]])
                          /\ \A k \in 1..Len(kw) : lower(short_add.s[m[1]][m[2] + k - 1]) = kw[k] }
                first == CHOOSE m \in at : \A o \in at : m[1] < o[1] \/ (m[1] = o[1] /\ m[2] <= o[2])
                seg == short_add.s[first[1]]
            IN  IF at = {} THEN None
                ELSE Str([k \in 1..(Len(seg) - first[2] + 1) |-> capitalize(lower(seg[first[2] + k - 1]))])
        Mentions(kw) ==
            \E s \in 1..Len(short_add.s) : \E i \in 1..Len(short_add.s[s]) :
                /\ i + Len(kw) - 1 <= Len(short_add.s[s])
                /\ \A k \in 1..Len(kw) : lower(short_add.s[s][i + k - 1]) = kw[k]
        Join(seg) == [k \in 1..(2 * Len(seg) - 1) |-> IF k % 2 = 1 THEN seg[(k + 1) \div 2] ELSE " "]
        FromShortAddress ==
            IF short_add = Absent THEN Raise("KeyError")
            ELSE IF short_add.k # "str" \/ short_add.s = <<>> THEN None
            ELSE IF Mentions(<<"xa">>) THEN Found(<<"xa">>)
            ELSE IF Mentions(<<"phuong">>) THEN Found(<<"phuong">>)
            ELSE IF Mentions(<<"thi", "tran">>) THEN Found(<<"thi", "tran">>)
            ELSE IF Len(short_add.s) >= 3
            THEN matching(IF short_add.s[Len(short_add.s) - 2] = <<>> THEN <<>>
                          ELSE Join(short_add.s[Len(short_add.s) - 2]),
                          district_value, province_value)
            ELSE None
    IN  IF ward_value = Absent THEN Raise("KeyError")
        ELSE IF ward_value \in {Null, Text(<<>>), [k |-> "num", n |-> 0]} THEN FromShortAddress
        ELSE IF ward_value.k # "str" THEN Raise("AttributeError")
        ELSE IF ward_value.s[1] \in prefix THEN Str(ward_value.s)
        ELSE matching(ward_value.s, district_value, province_value)

\* run_cleaning_pipeline from the standardization stage on, for a frame of
\* one row: the frame written, or the exception the pipeline ends with.
\* Area, facade and length are NaN or a number of hundredths; dims is None
\* when the row is dropped, else the three columns as they are written.
run_cleaning_pipeline(files, df) ==
    LET address_std_new == AddressStandardizer(<<"PROVINCES_SQL_FILE", "DISTRICTS_SQL_FILE">>, files)
        area == df.area
        \* area ** 0.5 and area / x, rounded to 2 places as step 5 does
        sqrt == [k |-> "num", n |-> CHOOSE n \in 0..(10 * area.n + 10) :
                                      /\ n = 0 \/ (2 * n - 1) * (2 * n - 1) <= 400 * area.n
                                      /\ 400 * area.n < (2 * n + 1) * (2 * n + 1)]
        quot(x) == [k |-> "num", n |-> Round2(area.n, x.n)]
        fill_length == IF df.facade = NaN \/ df.facade.n = 0 THEN sqrt ELSE quot(df.facade)
        length == IF df.length = NaN THEN fill_length ELSE df.length
        \* the facade is missing here: an imputed length is then area ** 0.5,
        \* and area / area ** 0.5 is area ** 0.5 again
        fill_facade == IF df.length = NaN \/ df.length.n = 0 THEN sqrt ELSE quot(df.length)
        facade == IF df.facade = NaN THEN fill_facade ELSE df.facade
        mask_invalid_dimensions == facade.n > area.n \/ length.n > area.n
        dims == IF area = NaN \/ mask_invalid_dimensions THEN None
                ELSE [area |-> area, facade |-> facade, length |-> length]
        Standardized(province) ==
            LET district == standardize_district(address_std_new, df.district)
            IN  IF IsRaise(province) THEN province
                ELSE IF IsRaise(district) THEN district
                ELSE [t |-> "written", province |-> province, district |-> district, dims |-> dims]
    IN  IF address_std_new = Raise("FileNotFoundError")
        THEN [t |-> "written", province |-> df.province, district |-> df.district, dims |-> dims]
        ELSE IF IsRaise(address_std_new) THEN address_std_new
        ELSE Standardized(standardize_province(address_std_new, df.province))

----------------------------------------------------------------------------
(* The operations.  Between two rows the cleaner holds nothing: fn is      *)
(* "none".  An operation is applied to a row and returns; ApplyAgain       *)
(* applies the same operation to the same row a second time.               *)

NoRow == [k |-> "none"]

\* what operation f may return on input r
Returns(f, r) ==
    CASE f = "is_on_main_road"     -> { Bool(is_on_main_road(r.s)) }
      [] f = "extract_alley_width" -> { extract_alley_width(r) }
      [] f = "extract_num_floors"  -> { extract_num_floors(r) }
      [] f = "extract_facade_width" -> { extract_facade_width(r) }
      [] f = "extract_land_length" -> { extract_land_length(r) }
      [] f = "extract_total_area"  -> { extract_total_area(r) }
      [] f = "estimate_remaining_quality" -> { estimate_remaining_quality(r) }
      [] f = "extract_land_shape"  -> { extract_land_shape(r) }
      [] f = "extract_distance_to_main_road" -> extract_distance_to_main_road(r)
      [] f = "parse_and_clean_number" -> { parse_and_clean_number(r) }
      [] f = "parse_and_clean_width" -> { parse_and_clean_width(r) }
      [] f = "AddressStandardizer" -> { ret }
      [] f = "standardize_province" -> { standardize_province(address_std, r) }
      [] f = "standardize_district" -> { standardize_district(address_std, r) }
      [] f = "standardize_ward" -> { standardize_ward(address_std, r) }
      [] f = "run_cleaning_pipeline" -> { run_cleaning_pipeline(r.files, r) }

\* A call of f on r, outs being what the call can return
Apply(f, r, outs) ==
    /\ fn' = f
    /\ row' = r
    /\ ret' \in outs
    /\ runs' = "first"
    /\ UNCHANGED <<address_std, pc, tries, trace, urls, page_number, futures, details_all, file, saved>>

Call_is_on_main_road ==
    /\ fn = "none"
    /\ \E t \in Texts({ <<"nha">>, <<"mat", "pho">>, <<"mat", "tien">>, <<"cach">>, <<"gan">>,
                    <<"duong">>, <<"50m">>, <<"tren">>, <<",">> },
                  MaxRoadPhrases) :
        Apply("is_on_main_road", Text(t), { Bool(is_on_main_road(t)) })

Call_extract_alley_width ==
    /\ fn = "none"
    /\ \E r \in { Row(Absent, Text(d), o) :
                d \in Texts({ <<"nha", "mat", "pho">>, <<"hem", "O", "to">>, <<"hem">>, <<"5m">>,
                              <<"12m">>, <<"ngo", "thong">>, <<",">>, <<"cach">> },
                            MaxAlleyPhrases),
                o \in { Absent, NaN, [k |-> "text"], [k |-> "json_arr", m |-> <<>>],
                        Dict(<<>>), JsonObj(<<>>),
                        JsonObj(Label("Duong vao", <<"3,5m">>)),
                        JsonObj(Label("Duong vao", <<"20", "m">>)),
                        JsonObj(Label("Duong vao", <<"rong">>)) } } :
        Apply("extract_alley_width", r, { extract_alley_width(r) })

Call_extract_num_floors ==
    /\ fn = "none"
    /\ \E r \in { Row(t, d, o) :
                t \in {Absent, NaN, Text(<<>>), Text(<<"nha", "cap", "4">>)},
                d \in {Absent, NaN} \cup
                      { Text(x) :
                          x \in Texts({ <<"nha", "cap", "4">>, <<"cu">>, <<"nha">>, <<"3", "tang">>,
                                        <<"tret">>, <<"2", "lau">>, <<"cai", "tao">>, <<"gac", "lung">> },
                                      MaxFloorPhrases) },
                o \in {Absent, NaN, JsonObj(<<>>), Dict(<<>>), Dict(Label("So tang", <<"3", "tang">>))} } :
        Apply("extract_num_floors", r, { extract_num_floors(r) })

Call_extract_facade_width ==
    /\ fn = "none"
    /\ \E r \in SizeRows : Apply("extract_facade_width", r, { extract_facade_width(r) })

Call_extract_land_length ==
    /\ fn = "none"
    /\ \E r \in SizeRows : Apply("extract_land_length", r, { extract_land_length(r) })

Call_extract_total_area ==
    /\ fn = "none"
    /\ \E r \in { [title |-> Absent, description |-> Absent, main_info |-> m, other_info |-> o] :
                m \in { Absent, NaN, [k |-> "text"], [k |-> "json_num"], JsonObj(<<>>),
                        [k |-> "json_arr", m |-> << [k |-> "scalar"] >>],
                        [k |-> "json_arr", m |-> << AreaItem("Muc gia", Text(<<"5">>)),
                                                    AreaItem("Dien tich", Text(<<"50", "m">>)) >>],
                        [k |-> "json_arr", m |-> << AreaItem("Dien tich", NotStr) >>] },
                o \in { Absent, NaN, [k |-> "text"], [k |-> "json_arr", m |-> <<>>], Dict(<<>>),
                        JsonObj(<<>>), JsonObj(Label("Dien tich", <<"3,5m">>)) } } :
        Apply("extract_total_area", r, { extract_total_area(r) })

Call_estimate_remaining_quality ==
    /\ fn = "none"
    /\ \E r \in { [title |-> t, description |-> Text(d)] :
                t \in {Absent, NaN, Text(<<"ban", "nha">>)},
                d \in Texts({ <<"nha", "dep", ",">>, <<"o", "gan", "cho", "ngay", ",">>,
                              <<"nha", "kha", "cu", ",">>, <<"nha", "moi", ",">>,
                              <<"con", "moi", ",">>, <<"nha">> },
                            MaxQualityPhrases) } :
        Apply("estimate_remaining_quality", r, { estimate_remaining_quality(r) })

Call_extract_land_shape ==
    /\ fn = "none"
    /\ \E r \in { [title |-> t, description |-> Text(d)] :
                t \in {Absent, NaN},
                d \in Texts({ <<"khong", "meo", "mo", ",">>, <<"dat", "meo", "mo", ",">>,
                              <<"no", "hau", ",">>, <<"vuong", "vuc", ",">>,
                              <<"chu", "l", "hep", ",">>, <<"chUa">>, <<"nha">> },
                            MaxShapePhrases) } :
        Apply("extract_land_shape", r, { extract_land_shape(r) })

Call_extract_distance_to_main_road ==
    /\ fn = "none"
    /\ \E r \in { [title |-> t, description |-> d] :
                t \in {Absent, Text(<<>>)},
                d \in {Absent} \cup
                      { Text(x) :
                          x \in Texts({ <<"cach", "duong", "lon", "50m">>, <<"ra", "pho", "20m">>,
                                        <<"mat", "pho">>, <<"hem", "saU">>, <<"ngo", "rong">>,
                                        <<"ngo", "hep">>, <<"nha", "dep">>, <<",">> },
                                      MaxDistancePhrases) } } :
        Apply("extract_distance_to_main_road", r, extract_distance_to_main_road(r))

Call_parse_and_clean_number ==
    /\ fn = "none"
    /\ \E v \in NumberValues : Apply("parse_and_clean_number", v, { parse_and_clean_number(v) })

Call_parse_and_clean_width ==
    /\ fn = "none"
    /\ \E v \in NumberValues : Apply("parse_and_clean_width", v, { parse_and_clean_width(v) })

MaxProvincePieces == 3
MaxDistrictPieces == 4
MaxSegments == 3

Call_AddressStandardizer ==
    /\ fn = "none"
    /\ address_std = None
    /\ \E files \in {"ok", "missing", "bad sql"} :
        LET made == AddressStandardizer(<<"PROVINCES_SQL_FILE", "DISTRICTS_SQL_FILE",
                                          "WARDS_SQL_FILE", "STREETS_SQL_FILE">>, files)
        IN  /\ fn' = "AddressStandardizer"
            /\ row' = [k |-> "files", files |-> files]
            /\ ret' = IF IsRaise(made) THEN made ELSE None
            /\ address_std' = IF IsRaise(made) THEN None ELSE made
            /\ runs' = "first"
            /\ UNCHANGED <<pc, tries, trace, urls, page_number, futures, details_all, file, saved>>

\* standardize_province on a cell that is no string, or a name of up to
\* MaxProvincePieces pieces
Call_standardize_province ==
    /\ fn = "none"
    /\ address_std # None
    /\ \E v \in {NaN, Null, [k |-> "num", n |-> 500]} \cup
                { Text(s) : s \in UNION { [1..k -> {"Thanh pho ", "Tinh ", "Ha Noi", "Ho Chi Minh",
                                                     "Ba Ria - Vung Tau", "Ba Ria Vung Tau", "Hue", ".", ","}] :
                                          k \in 0..MaxProvincePieces } } :
            Apply("standardize_province", v, { standardize_province(address_std, v) })

\* standardize_district keeping what the similarity search found as a new key
\* of the province's dict
Call_standardize_district_Memo ==
    /\ fn = "none"
    /\ address_std # None
    /\ \E d \in { <<"x", "x", "y", "z">>, <<"z", "z">> } :
        LET r == [k |-> "row", district |-> Text(d), province |-> Text(<<"Thanh pho ", "Ha Noi">>)]
            out == standardize_district(address_std, r)
        IN  /\ fn' = "standardize_district"
            /\ row' = r
            /\ ret' = out
            /\ runs' = "first"
            /\ address_std' =
                    IF out.t # "str" THEN address_std
                    ELSE [address_std EXCEPT !.reverse_district =
                            Put(@, r.province.s, Put(Get(@, r.province.s), d, out.s))]
            /\ UNCHANGED <<pc, tries, trace, urls, page_number, futures, details_all, file, saved>>

\* standardize_district on a row, or on a cell of the district column as
\* Series.apply hands it over
Call_standardize_district ==
    /\ fn = "none"
    /\ address_std # None
    /\ \E r \in {NaN, Text(<<"x", "y">>)} \cup
                { [k |-> "row", district |-> d, province |-> p] :
                    d \in {Absent, NaN, Null} \cup
                          { Text(s) : s \in UNION { [1..k -> {"Quan ", "x", "y", "z", "2"}] :
                                                    k \in 0..MaxDistrictPieces } },
                    p \in {Absent, NaN, Text(<<"Ha Noi">>), Text(<<"Thanh pho ", "Ha Noi">>),
                           Text(<<"Thanh pho ", "Ho Chi Minh">>), Text(<<"Tinh ", "Ba Ria - Vung Tau">>)} } :
            Apply("standardize_district", r, { standardize_district(address_std, r) })

\* standardize_ward on a row whose short address has up to MaxSegments segments
Call_standardize_ward ==
    /\ fn = "none"
    /\ address_std # None
    /\ \E r \in { [k |-> "row", ward |-> w, district |-> d, province |-> p, short_address |-> a] :
                    w \in {Absent, Null, NaN, Text(<<>>), Text(<<"Phuong ", "x">>), Text(<<"x">>), Text(<<"x", "y">>)},
                    d \in {Absent, Text(<<"Quan ", "x", "y">>), Text(<<"x", "y">>)},
                    p \in {Absent, NaN, Text(<<"Thanh pho ", "Ha Noi">>)},
                    a \in {Absent, NaN} \cup
                          { Text(s) : s \in UNION { [1..k -> { <<"xa", "x">>, <<"Thi", "xa">>, <<"phuong", "y">>,
                                                               <<"thi", "tran", "x">>, <<"x">>, <<"x", "z">> }] :
                                                    k \in 0..MaxSegments } } } :
            Apply("standardize_ward", r, { standardize_ward(address_std, r) })

Call_run_cleaning_pipeline ==
    /\ fn = "none"
    /\ \E files \in {"ok", "missing", "bad sql"} :
       \E province \in {NaN, Text(<<"Ha Noi">>)}, district \in {NaN, Text(<<"x", "y">>)} :
       \E area \in {NaN, [k |-> "num", n |-> 0], [k |-> "num", n |-> 25], [k |-> "num", n |-> 2500]},
          facade \in {NaN, [k |-> "num", n |-> 0], [k |-> "num", n |-> 500], [k |-> "num", n |-> 4000]},
          length \in {NaN, [k |-> "num", n |-> 0], [k |-> "num", n |-> 700]} :
            LET df == [k |-> "frame", files |-> files, province |-> province, district |-> district,
                       area |-> area, facade |-> facade, length |-> length]
            IN  Apply("run_cleaning_pipeline", df, { run_cleaning_pipeline(files, df) })

ApplyAgain ==
    /\ fn # "none"
    /\ runs = "first"
    /\ runs' \in { IF v = ret THEN "same" ELSE "differs" : v \in Returns(fn, row) }
    /\ UNCHANGED <<fn, row, ret, address_std,
                   pc, tries, trace, urls, page_number, futures, details_all, file, saved>>

NextRow ==
    /\ fn # "none"
    /\ fn' = "none"
    /\ row' = NoRow
    /\ ret' = None
    /\ runs' = "first"
    \* the locals of the call that returned are gone
    /\ tries' = 0
    /\ trace' = <<>>
    /\ urls' = <<>>
    /\ page_number' = 1
    /\ futures' = <<>>
    /\ details_all' = <<>>
    /\ UNCHANGED <<address_std, pc, file, saved>>

----------------------------------------------------------------------------
(* Feature engineering (src/src/feature_engineering.py).  A cell of the    *)
(* row is Absent, Null, NaN or [k |-> "num", n |-> n]; lengths, widths and *)
(* the remaining quality are counted in hundredths, prices and areas in    *)
(* units.                                                                  *)

\* get_location_category with > for >= in the VT2 test
get_location_category_Strict(r) ==
    LET distance == r.distance
        alley_width == r.alley_width
    IN  IF distance \in {Absent, Null, NaN} THEN None
        ELSE IF distance.n = 0 THEN Str(<<"VT1">>)
        ELSE IF alley_width \in {Absent, Null, NaN} THEN None
        ELSE IF alley_width.n > 350 THEN Str(<<"VT2">>)
        ELSE IF 200 <= alley_width.n /\ alley_width.n < 350 THEN Str(<<"VT3">>)
        ELSE IF alley_width.n < 200 THEN Str(<<"VT4">>)
        ELSE None

\* FeatureEngineer.get_location_category
get_location_category(r) ==
    LET distance == r.distance
        alley_width == r.alley_width
    IN  IF distance \in {Absent, Null, NaN} THEN None
        ELSE IF distance.n = 0 THEN Str(<<"VT1">>)
        ELSE IF alley_width \in {Absent, Null, NaN} THEN None
        ELSE IF alley_width.n >= 350 THEN Str(<<"VT2">>)
        ELSE IF 200 <= alley_width.n /\ alley_width.n < 350 THEN Str(<<"VT3">>)
        ELSE IF alley_width.n < 200 THEN Str(<<"VT4">>)
        ELSE None

\* FeatureEngineer.calculate_land_unit_price, the result in hundredths
calculate_land_unit_price(r) ==
    LET total_price == r.total_price
        construction_cost_per_sqm == r.construction_cost_per_sqm
        land_area == r.land_area
        remaining_quality == r.remaining_quality
        total_floor_area == r.total_floor_area
        \* a hundred times building_value
        building_value == construction_cost_per_sqm.n * total_floor_area.n * remaining_quality.n
    IN  IF \E c \in {total_price, construction_cost_per_sqm, land_area, remaining_quality,
                     total_floor_area} : c \in {Absent, Null, NaN}
        THEN None
        ELSE IF land_area.n <= 0 \/ total_floor_area.n <= 0 THEN None
        ELSE IF building_value >= 100 * total_price.n THEN None
        ELSE Num(Round2(100 * total_price.n - building_value, 100 * land_area.n))

\* get_location_category on a row with or without a distance and an alley
\* width
Call_get_location_category ==
    /\ fn = "none"
    /\ pc = "idle"
    /\ \E distance \in {Absent, Null, NaN} \cup { [k |-> "num", n |-> n] : n \in {0, 1, 5000} },
          alley_width \in {Absent, Null, NaN} \cup
                          { [k |-> "num", n |-> n] : n \in {0, 199, 200, 349, 350, 351, 1200} } :
        LET r == [k |-> "row", distance |-> distance, alley_width |-> alley_width]
        IN  Apply("get_location_category", r, { get_location_category(r) })

\* calculate_land_unit_price on a row whose building is worth less than, as
\* much as or more than the price asked
Call_calculate_land_unit_price ==
    /\ fn = "none"
    /\ pc = "idle"
    /\ \E total_price \in {NaN} \cup { [k |-> "num", n |-> n] : n \in {0, 1000, 3000} },
          construction_cost_per_sqm \in {Null} \cup { [k |-> "num", n |-> n] : n \in {0, 10} },
          land_area \in {Absent} \cup { [k |-> "num", n |-> n] : n \in {0, 50, 300} },
          remaining_quality \in {NaN} \cup { [k |-> "num", n |-> n] : n \in {50, 85, 100} },
          total_floor_area \in {NaN} \cup { [k |-> "num", n |-> n] : n \in {0, 100, 200} } :
        LET r == [k |-> "row", total_price |-> total_price,
                  construction_cost_per_sqm |-> construction_cost_per_sqm,
                  land_area |-> land_area, remaining_quality |-> remaining_quality,
                  total_floor_area |-> total_floor_area]
        IN  Apply("calculate_land_unit_price", r, { calculate_land_unit_price(r) })

----------------------------------------------------------------------------
(* The basement tests of the construction cost, src/src/cleaning.py:136-144 *)
(* and 828-879.                                                             *)

RECURSIVE HamFindAll(_, _)
\* re.findall of the pattern of check_ham from word i on: one to seven words,
\* none of which begins a phrase of the negative lookahead, then "hầm", then
\* one to seven words that stop before " chui".  The windows are greedy, and
\* a match is looked for at each word in turn, so the words of a phrase after
\* its first may begin one.
HamFindAll(text, i) ==
    IF i > Len(text) THEN <<>>
    ELSE LET Free(p) == ~\E neg \in { <<"duoc", "xay">>, <<"giay", "phep", "xay", "dung">>,
                                      <<"gpxd">>, <<"cai", "tao">> } : Occurs(text, p, neg)
             Follow(h) == { n \in 1..7 : \A k \in 1..n : W(text, h + k) \notin {"", "chui"} }
             hams == { h \in (i + 1)..(i + 7) :
                        /\ W(text, h) = "ham"
                        /\ \A p \in i..(h - 1) : Free(p)
                        /\ Follow(h) # {} }
             e == Max(hams) + Max(Follow(Max(hams)))
         IN  IF hams = {} THEN HamFindAll(text, i + 1)
             ELSE << SubSeq(text, i, e) >> \o HamFindAll(text, e + 1)

\* check_ham(text)
check_ham(text) ==
    LET string == HamFindAll(text, 1)
        ham(substr) ==
            \/ \E n \in 1..Len(substr) :
                    substr[n] \in NumberTokens \cup { "tang", "lau", "tAm", "me", "xe", "kc",
                                                      "tret", "lung" }
            \/ \E two \in { <<"ket", "cau">>, <<"O", "to">>, <<"thang", "may">> } :
                    Contains(substr, two)
    IN  \E k \in 1..Len(string) : ham(string[k])

MaxBasementPhrases == 3

\* check_ham on a text with or without a basement, a permit phrase before it
\* and a floor count after it
Call_check_ham ==
    /\ fn = "none"
    /\ pc = "idle"
    /\ \E t \in Texts({ <<"duoc", "xay">>, <<"duoc", "phep", "xay">>,
                        <<"giay", "phep", "xay", "dung">>, <<"gpxd">>, <<"nha">>, <<"ham">>,
                        <<"chui">>, <<"3", "tang">> },
                      MaxBasementPhrases) :
        Apply("check_ham", Text(t), { Bool(check_ham(t)) })

\* DataCleaner.get_construction_cost: the entry of CONSTRUCTION_COST_MAP it
\* returns, 0 for land, or the exception of an extractor
get_construction_cost(r) ==
    LET text == TitleAndDescription(r)
        villa == << Words({"biet"}), Words({"thu"}) >>
        prop_type ==
            IF /\ AnyMatch(text, << << Words({"ban"}), Opt(Words({"can"})) >> \o villa,
                                    << Words({"nha"}), Opt(Words({"kieu"})) >> \o villa,
                                    << Opt(Words({"can"})) >> \o villa \o
                                        << { <<"don", "lap">>, <<"san", "vuon">>, <<"vuon">>,
                                             <<"cao", "cap">>, <<"dep">>, <<"view">>,
                                             <<"4", "mat">> } >> >>)
               /\ ~AnyMatch(text, << << { <<"lien", "kE">>, <<"gan">>, <<"cach">>, <<"khu">>,
                                          <<"doi", "dien">>, <<"thuoc">>, <<"gan", "khu">> } >>
                                        \o villa >>)
            THEN "biet thu"
            ELSE IF AnyMatch(text, << << Words({"nha"}), { <<"cap", "4">>, <<"cap4">> } >> >>)
            THEN "nha cap 4"
            ELSE "nha thuong"
        \* _has_bsmt: re.search(r"\b(tầng\s+)?hầm\b", text)
        has_bsmt == \E i \in 1..Len(text) : text[i] = "ham"
        floors == extract_num_floors(r)
        area == extract_total_area(r)
    IN  IF r.is_land THEN Num(0)
        ELSE IF IsRaise(floors) THEN floors
        ELSE IF IsRaise(area) THEN area
        ELSE IF prop_type = "biet thu"
        THEN Str(<< IF has_bsmt THEN "biet_thu_co_ham" ELSE "biet_thu" >>)
        ELSE IF prop_type = "nha cap 4" THEN Str(<<"nha_cap_4">>)
        ELSE IF floors = None THEN Str(<<"nha_1_tang_btct">>)
        ELSE IF floors.n = 100
        THEN (IF area # None /\ area.n < 3500 THEN Str(<<"nha_cap_4">>)
              ELSE Str(<<"nha_1_tang_btct">>))
        ELSE IF floors.n >= 200
        THEN Str(<< IF has_bsmt THEN "nha_gte_2_tang_co_ham" ELSE "nha_gte_2_tang_khong_ham" >>)
        ELSE Str(<<"nha_1_tang_btct">>)

\* get_construction_cost on a listing whose text may name a villa, a basement,
\* a building permit and a floor count
Call_get_construction_cost ==
    /\ fn = "none"
    /\ pc = "idle"
    /\ \E is_land \in BOOLEAN,
          title \in { Text(<<"nha">>), Text(<<"ban", "biet", "thu">>) },
          d \in Texts({ <<"giay", "phep", "xay", "dung">>, <<"ham">>, <<"3", "tang">>,
                        <<"gan", "biet", "thu">>, <<"nha", "cap", "4">> },
                      MaxBasementPhrases),
          other_info \in { Absent, Dict(<<>>) },
          main_info \in { Absent,
                          [k |-> "json_arr", m |-> << AreaItem("Dien tich", Text(<<"20">>)) >>] } :
        LET r == [k |-> "row", is_land |-> is_land, title |-> title, description |-> Text(d),
                  other_info |-> other_info, main_info |-> main_info]
        IN  Apply("get_construction_cost", r, { get_construction_cost(r) })

----------------------------------------------------------------------------
(* The retry decorator, src/src/scraping.py:15-41.  trace holds what the   *)
(* wrapper has done: [e |-> "call", out |-> o] for an invocation of the      *)
(* wrapped function and how it ended, [e |-> "sleep", s |-> n] for a         *)
(* time.sleep(n).                                                            *)

MaxTries == 3

\* a call of the wrapper of retry(max_tries, delay_seconds, backoff): tries = 0
Call_retry ==
    /\ fn = "none"
    /\ pc = "idle"
    /\ \E max_tries \in 0..MaxTries, delay_seconds \in {3, 5}, backoff \in {1, 2} :
        row' = [k |-> "retry", max_tries |-> max_tries, delay_seconds |-> delay_seconds,
                backoff |-> backoff]
    /\ pc' = "retry"
    /\ tries' = 0
    /\ trace' = <<>>
    /\ UNCHANGED <<fn, ret, runs, address_std, urls, page_number, futures, details_all, file, saved>>

\* one turn of the while loop with the sleep after every failure, the last
\* one too
retry_attempt_SleepAlways ==
    /\ pc = "retry"
    /\ \E out \in { Str(<<"data">>), None, Raise("Exception"), Raise("KeyboardInterrupt") } :
        LET called == Append(trace, [e |-> "call", out |-> out])
            sleep_time == row.delay_seconds * (row.backoff ^ tries)
            Return(v, did) ==
                /\ fn' = "retry"
                /\ ret' = v
                /\ pc' = "idle"
                /\ trace' = did
        IN  IF tries >= row.max_tries THEN Return(None, trace) /\ UNCHANGED tries
            ELSE IF out # Raise("Exception") THEN Return(out, called) /\ UNCHANGED tries
            ELSE /\ tries' = tries + 1
                 /\ IF tries + 1 > row.max_tries
                    THEN Return(None, called)
                    ELSE /\ trace' = Append(called, [e |-> "sleep", s |-> sleep_time])
                         /\ UNCHANGED <<fn, ret, pc>>
    /\ UNCHANGED <<row, runs, address_std, urls, page_number, futures, details_all, file, saved>>

\* one turn of the while loop of the wrapper: the wrapped function is invoked
\* and returns, raises an Exception, or raises what is no Exception; after
\* the loop the wrapper returns None
retry_attempt ==
    /\ pc = "retry"
    /\ \E out \in { Str(<<"data">>), None, Raise("Exception"), Raise("KeyboardInterrupt") } :
        LET called == Append(trace, [e |-> "call", out |-> out])
            sleep_time == row.delay_seconds * (row.backoff ^ tries)
            Return(v, did) ==
                /\ fn' = "retry"
                /\ ret' = v
                /\ pc' = "idle"
                /\ trace' = did
        IN  IF tries >= row.max_tries THEN Return(None, trace) /\ UNCHANGED tries
            ELSE IF out # Raise("Exception") THEN Return(out, called) /\ UNCHANGED tries
            ELSE /\ tries' = tries + 1
                 /\ IF tries + 1 >= row.max_tries
                    THEN Return(None, called)
                    ELSE /\ trace' = Append(called, [e |-> "sleep", s |-> sleep_time])
                         /\ UNCHANGED <<fn, ret, pc>>
    /\ UNCHANGED <<row, runs, address_std, urls, page_number, futures, details_all, file, saved>>

----------------------------------------------------------------------------
(* The two chunks(iterable, n), src/main.py:69-77 and                      *)
(* src/src/utils.py:50-57: the slices yielded, in order, or the exception   *)
(* of divmod.  range(n) counts from 0, the sequences here from 1.           *)

MAX_WORKERS == 3
MaxUrls == 5
MaxChunks == 4

\* chunks of main.py with i <= m for i < m
chunks_OneMore(iterable, n) ==
    LET k == Len(iterable) \div n
        m == Len(iterable) % n
        RECURSIVE Yield(_, _)
        Yield(i, start) ==
            IF i >= n THEN <<>>
            ELSE LET end == start + k + (IF i <= m THEN 1 ELSE 0)
                 IN  << SubSeq(iterable, start + 1, Min({end, Len(iterable)})) >> \o Yield(i + 1, end)
    IN  IF n = 0 THEN Raise("ZeroDivisionError") ELSE [t |-> "list", v |-> Yield(0, 0)]

\* chunks of main.py: a running start, one more element in the first m slices
chunks(iterable, n) ==
    LET k == Len(iterable) \div n
        m == Len(iterable) % n
        RECURSIVE Yield(_, _)
        Yield(i, start) ==
            IF i >= n THEN <<>>
            ELSE LET end == start + k + (IF i < m THEN 1 ELSE 0)
                 IN  << SubSeq(iterable, start + 1, Min({end, Len(iterable)})) >> \o Yield(i + 1, end)
    IN  IF n = 0 THEN Raise("ZeroDivisionError") ELSE [t |-> "list", v |-> Yield(0, 0)]

\* chunks of utils.py: start and end of slice i in closed form
utils_chunks(iterable, n) ==
    LET lst == iterable
        k == Len(lst) \div n
        m == Len(lst) % n
        start(i) == i * k + Min({i, m})
        end(i) == (i + 1) * k + Min({i + 1, m})
    IN  IF n = 0 THEN Raise("ZeroDivisionError")
        ELSE [t |-> "list", v |-> [j \in 1..n |-> SubSeq(lst, start(j - 1) + 1, end(j - 1))]]

\* both chunks on a list of up to MaxUrls URLs and a number of chunks
Call_chunks ==
    /\ fn = "none"
    /\ pc = "idle"
    /\ \E size \in 0..MaxUrls, n \in 0..MaxChunks :
       \E iterable \in [1..size -> {"/a", "/b"}] :
            Apply("chunks", [k |-> "chunks", iterable |-> iterable, n |-> n],
                  { [main |-> chunks(iterable, n), utils |-> utils_chunks(iterable, n)] })

----------------------------------------------------------------------------
(* The details step, src/main.py:33-66 and 233-269.  A row of the details  *)
(* file is the header or the record of a URL; a future is "running", "done" *)
(* (its worker returned or raised) or "read" (the coordinator took its      *)
(* result).                                                                 *)

MaxCalls == 2
MaxRuns == 1
MaxScrapeUrls == 4

\* save_details_to_csv writing the header on every call
save_details_to_csv_HeaderAlways(details, f, is_append_mode) ==
    LET file_exists == f # None
        mode == IF is_append_mode /\ file_exists THEN "a" ELSE "w"
        write_header == TRUE
        df == (IF write_header THEN << [t |-> "header"] >> ELSE <<>>) \o details
    IN  IF details = <<>> THEN f
        ELSE IF mode = "a" THEN f \o df
        ELSE df

\* save_details_to_csv(details, file_path) under append_mode: the file after
\* the call, f being the file before it (None when there is none)
save_details_to_csv(details, f, is_append_mode) ==
    LET file_exists == f # None
        mode == IF is_append_mode /\ file_exists THEN "a" ELSE "w"
        write_header == ~(is_append_mode /\ file_exists)
        df == (IF write_header THEN << [t |-> "header"] >> ELSE <<>>) \o details
    IN  IF details = <<>> THEN f
        ELSE IF mode = "a" THEN f \o df
        ELSE df

\* a call of save_details_to_csv with no, one or two records
Call_save_details_to_csv ==
    /\ fn = "none"
    /\ pc = "idle"
    /\ Len(saved) < MaxCalls
    /\ \E details \in { <<>>, << [t |-> "record", url |-> 1] >>,
                        << [t |-> "record", url |-> 2], [t |-> "record", url |-> 3] >>,
                        << [t |-> "record", url |-> 1], [t |-> "record", url |-> 1] >> },
          append_mode \in BOOLEAN :
        /\ fn' = "save_details_to_csv"
        /\ row' = [k |-> "details", details |-> details, append_mode |-> append_mode]
        /\ file' = save_details_to_csv(details, file, append_mode)
        /\ saved' = Append(saved, [details |-> details, append_mode |-> append_mode])
    /\ ret' = None
    /\ runs' = "first"
    /\ UNCHANGED <<address_std, pc, tries, trace, urls, page_number, futures, details_all>>

\* run_scrape_details up to the submission of the workers: with no URL it
\* returns, else each worker gets its chunk
Call_run_scrape_details ==
    /\ fn = "none"
    /\ pc = "idle"
    /\ Len(saved) < MaxRuns
    /\ \E size \in 0..MaxScrapeUrls :
        LET urls_to_scrape == [i \in 1..size |-> i]
            max_workers == Min({MAX_WORKERS, Len(urls_to_scrape)})
            url_chunks == chunks(urls_to_scrape, max_workers).v
        IN  /\ row' = [k |-> "run", urls |-> urls_to_scrape, saved_before |-> Len(saved)]
            /\ IF max_workers = 0
               THEN /\ fn' = "run_scrape_details"
                    /\ UNCHANGED <<pc, futures>>
               ELSE /\ pc' = "workers"
                    /\ futures' = [wid \in 1..max_workers |->
                                     [state |-> "running", subset |-> url_chunks[wid]]]
                    /\ UNCHANGED fn
    /\ details_all' = <<>>
    /\ ret' = None
    /\ runs' = "first"
    /\ UNCHANGED <<address_std, tries, trace, urls, page_number, file, saved>>

\* scrape_worker from start to end, for one worker: it shares nothing with
\* the others.  It returns the data of the URLs whose scrape gave any (in
\* order), or raises.
scrape_worker ==
    /\ pc = "workers"
    /\ \E wid \in DOMAIN futures :
        /\ futures[wid].state = "running"
        /\ \E got \in SUBSET DOMAIN futures[wid].subset, raises \in BOOLEAN :
            LET url_subset == futures[wid].subset
                kept == SelectSeq([i \in DOMAIN url_subset |-> i], LAMBDA i : i \in got)
                results == [i \in DOMAIN kept |-> [t |-> "record", url |-> url_subset[kept[i]]]]
            IN  /\ raises => got = {}
                /\ futures' = [futures EXCEPT ![wid] =
                                [state |-> "done",
                                 result |-> IF raises THEN Raise("Exception")
                                            ELSE [t |-> "list", v |-> results]]]
    /\ UNCHANGED <<fn, row, ret, runs, address_std, pc, tries, trace, urls, page_number,
                   details_all, file, saved>>

\* one turn of the loop over as_completed with a worker's exception emptying
\* details_all
as_completed_Shared ==
    /\ pc = "workers"
    /\ \E wid \in DOMAIN futures :
        /\ futures[wid].state = "done"
        /\ LET worker_details == futures[wid].result
               read == [futures EXCEPT ![wid].state = "read"]
               extended == IF IsRaise(worker_details) THEN <<>>
                           ELSE details_all \o worker_details.v
           IN  /\ futures' = read
               /\ details_all' = extended
               /\ IF \A w \in DOMAIN read : read[w].state = "read"
                  THEN /\ file' = save_details_to_csv(extended, file, TRUE)
                       /\ saved' = Append(saved, [details |-> extended, append_mode |-> TRUE])
                       /\ fn' = "run_scrape_details"
                       /\ pc' = "idle"
                  ELSE UNCHANGED <<file, saved, fn, pc>>
    /\ UNCHANGED <<row, ret, runs, address_std, tries, trace, urls, page_number>>

\* one turn of the loop over as_completed: the coordinator reads a future that
\* is done, extends details_all with what the worker returned, or catches what
\* it raised; after the last future it saves details_all and returns
as_completed ==
    /\ pc = "workers"
    /\ \E wid \in DOMAIN futures :
        /\ futures[wid].state = "done"
        /\ LET worker_details == futures[wid].result
               read == [futures EXCEPT ![wid].state = "read"]
               extended == IF IsRaise(worker_details) THEN details_all
                           ELSE details_all \o worker_details.v
           IN  /\ futures' = read
               /\ details_all' = extended
               /\ IF \A w \in DOMAIN read : read[w].state = "read"
                  THEN /\ file' = save_details_to_csv(extended, file, TRUE)
                       /\ saved' = Append(saved, [details |-> extended, append_mode |-> TRUE])
                       /\ fn' = "run_scrape_details"
                       /\ pc' = "idle"
                  ELSE UNCHANGED <<file, saved, fn, pc>>
    /\ UNCHANGED <<row, ret, runs, address_std, tries, trace, urls, page_number>>

----------------------------------------------------------------------------
(* Scraper.scrape_listing_urls, src/src/scraping.py:53-98.  An href is the *)
(* empty sequence (no attribute), <<"/", i>> (the path of listing i) or    *)
(* <<BASE_URL, "/", i>>; a page shows two links, and which is the driver's *)
(* choice at every fetch, out of the finitely many listings of the site.   *)
(* row keeps the page just read and the set of URLs seen on the pages so   *)
(* far.                                                                    *)

BASE_URL == "https://batdongsan.com.vn"
MaxListings == 2

\* the call of scrape_listing_urls up to the loop
Call_scrape_listing_urls ==
    /\ fn = "none"
    /\ pc = "idle"
    /\ row' = [k |-> "listing", page |-> None, seen |-> {}]
    /\ pc' = "urls"
    /\ urls' = <<>>
    /\ page_number' = 1
    /\ UNCHANGED <<fn, ret, runs, address_std, tries, trace, futures, details_all, file, saved>>

\* one turn of the page loop with every href taken as it is
scrape_listing_urls_page_NoBase ==
    /\ pc = "urls"
    /\ \E page \in { [wait |-> "timeout", links |-> <<>>] } \cup
                   { [wait |-> "found", links |-> l] :
                       l \in [1..2 -> {<<>>}
                               \cup { <<"/", i>> : i \in 1..MaxListings }
                               \cup { <<BASE_URL, "/", i>> : i \in 1..MaxListings }] } :
        LET links == page.links
            full_url(href) == href
            RECURSIVE collect(_, _)
            collect(i, acc) ==
                IF i > Len(links) THEN acc
                ELSE IF links[i] # <<>> /\ full_url(links[i]) \notin Range(acc)
                     THEN collect(i + 1, Append(acc, full_url(links[i])))
                     ELSE collect(i + 1, acc)
            urls_before_scrape == Len(urls)
            collected == collect(1, urls)
            Break ==
                /\ fn' = "scrape_listing_urls"
                /\ ret' = [t |-> "list", v |-> collected]
                /\ pc' = "idle"
                /\ UNCHANGED page_number
        IN  /\ row' = [row EXCEPT !.page = page,
                         !.seen = @ \cup { full_url(links[i]) :
                                             i \in { j \in DOMAIN links : links[j] # <<>> } }]
            /\ urls' = collected
            /\ IF page.wait = "timeout" THEN Break
               ELSE IF Len(collected) = urls_before_scrape THEN Break
               ELSE /\ page_number' = page_number + 1
                    /\ UNCHANGED <<fn, ret, pc>>
    /\ UNCHANGED <<runs, address_std, tries, trace, futures, details_all, file, saved>>

\* one turn of the page loop: the page is fetched; when the wait for a link
\* times out the loop ends; else every href that is not empty is completed
\* with BASE_URL when it starts with "/" and appended unless already in urls;
\* the loop ends when nothing was appended
scrape_listing_urls_page ==
    /\ pc = "urls"
    /\ \E page \in { [wait |-> "timeout", links |-> <<>>] } \cup
                   { [wait |-> "found", links |-> l] :
                       l \in [1..2 -> {<<>>}
                               \cup { <<"/", i>> : i \in 1..MaxListings }
                               \cup { <<BASE_URL, "/", i>> : i \in 1..MaxListings }] } :
        LET links == page.links
            full_url(href) == IF href[1] = "/" THEN <<BASE_URL>> \o href ELSE href
            RECURSIVE collect(_, _)
            collect(i, acc) ==
                IF i > Len(links) THEN acc
                ELSE IF links[i] # <<>> /\ full_url(links[i]) \notin Range(acc)
                     THEN collect(i + 1, Append(acc, full_url(links[i])))
                     ELSE collect(i + 1, acc)
            urls_before_scrape == Len(urls)
            collected == collect(1, urls)
            Break ==
                /\ fn' = "scrape_listing_urls"
                /\ ret' = [t |-> "list", v |-> collected]
                /\ pc' = "idle"
                /\ UNCHANGED page_number
        IN  /\ row' = [row EXCEPT !.page = page,
                         !.seen = @ \cup { full_url(links[i]) :
                                             i \in { j \in DOMAIN links : links[j] # <<>> } }]
            /\ urls' = collected
            /\ IF page.wait = "timeout" THEN Break
               ELSE IF Len(collected) = urls_before_scrape THEN Break
               ELSE /\ page_number' = page_number + 1
                    /\ UNCHANGED <<fn, ret, pc>>
    /\ UNCHANGED <<runs, address_std, tries, trace, futures, details_all, file, saved>>

----------------------------------------------------------------------------
(* _predict_alley_width_ml_step, src/main.py:106-220.  A row of the frame  *)
(* is its alley width (NaN or hundredths) and its other columns, of which  *)
(* the land unit price stands for all; external is the number of clean     *)
(* records of the training file (0 when there is none).  What the SVR      *)
(* predicts is its own affair: expm1 of any number, in thousandths, or a   *)
(* ValueError of the fit when the training data hold a NaN or an infinity. *)

MinTrain == 50
MaxRows == 2

\* _predict_alley_width_ml_step without the clipping of the predictions
Call_predict_alley_width_ml_step_NoClip ==
    /\ fn = "none"
    /\ pc = "idle"
    /\ \E df \in UNION { [1..n -> [alley : {NaN, [k |-> "num", n |-> 0], [k |-> "num", n |-> 300]},
                                    price : {NaN, [k |-> "num", n |-> 5000]}]] : n \in 0..MaxRows },
          external \in {0, MinTrain - 2, MinTrain - 1, MinTrain},
          fits \in BOOLEAN :
        \E predicted \in [DOMAIN df -> {0 - 500, 0, 1234, 20000}] :
            LET df_internal_train == SelectSeq(df, LAMBDA r : r.price # NaN /\ r.alley # NaN /\ r.alley.n # 0)
                len_df_train == external + Len(df_internal_train)
                predict_mask == { i \in DOMAIN df : df[i].alley = NaN }
                predictions == [i \in DOMAIN df |-> predicted[i]]
                filled == [i \in DOMAIN df |->
                             IF i \in predict_mask
                             THEN [df[i] EXCEPT !.alley = [k |-> "num", n |-> Round2(predictions[i], 1000)]]
                             ELSE df[i]]
                returned == IF len_df_train < MinTrain THEN [t |-> "frame", rows |-> df]
                            ELSE IF ~fits THEN Raise("ValueError")
                            ELSE IF predict_mask = {} THEN [t |-> "frame", rows |-> df]
                            ELSE [t |-> "frame", rows |-> filled]
            IN  /\ \A i \in DOMAIN df : i \notin predict_mask => predicted[i] = 0
                /\ len_df_train < MinTrain => (fits /\ \A i \in DOMAIN df : predicted[i] = 0)
                /\ ~fits => \A i \in DOMAIN df : predicted[i] = 0
                /\ Apply("_predict_alley_width_ml_step",
                         [k |-> "ml", df |-> df, train |-> len_df_train, predicted |-> predicted],
                         { returned })

\* a call of _predict_alley_width_ml_step(df)
Call_predict_alley_width_ml_step ==
    /\ fn = "none"
    /\ pc = "idle"
    /\ \E df \in UNION { [1..n -> [alley : {NaN, [k |-> "num", n |-> 0], [k |-> "num", n |-> 300]},
                                    price : {NaN, [k |-> "num", n |-> 5000]}]] : n \in 0..MaxRows },
          external \in {0, MinTrain - 2, MinTrain - 1, MinTrain},
          fits \in BOOLEAN :
        \E predicted \in [DOMAIN df -> {0 - 500, 0, 1234, 20000}] :
            LET df_internal_train == SelectSeq(df, LAMBDA r : r.price # NaN /\ r.alley # NaN /\ r.alley.n # 0)
                len_df_train == external + Len(df_internal_train)
                predict_mask == { i \in DOMAIN df : df[i].alley = NaN }
                predictions == [i \in DOMAIN df |-> IF predicted[i] < 0 THEN 0 ELSE predicted[i]]
                filled == [i \in DOMAIN df |->
                             IF i \in predict_mask
                             THEN [df[i] EXCEPT !.alley = [k |-> "num", n |-> Round2(predictions[i], 1000)]]
                             ELSE df[i]]
                returned == IF len_df_train < MinTrain THEN [t |-> "frame", rows |-> df]
                            ELSE IF ~fits THEN Raise("ValueError")
                            ELSE IF predict_mask = {} THEN [t |-> "frame", rows |-> df]
                            ELSE [t |-> "frame", rows |-> filled]
            IN  /\ \A i \in DOMAIN df : i \notin predict_mask => predicted[i] = 0
                /\ len_df_train < MinTrain => (fits /\ \A i \in DOMAIN df : predicted[i] = 0)
                /\ ~fits => \A i \in DOMAIN df : predicted[i] = 0
                /\ Apply("_predict_alley_width_ml_step",
                         [k |-> "ml", df |-> df, train |-> len_df_train, predicted |-> predicted],
                         { returned })

Init ==
    /\ fn = "none"
    /\ row = NoRow
    /\ ret = None
    /\ runs = "first"
    /\ address_std = None
    /\ pc = "idle"
    /\ tries = 0
    /\ trace = <<>>
    /\ urls = <<>>
    /\ page_number = 1
    /\ futures = <<>>
    /\ details_all = <<>>
    /\ file = None
    /\ saved = <<>>

Next ==
    \/ Call_is_on_main_road
    \/ Call_extract_alley_width
    \/ Call_extract_num_floors
    \/ Call_extract_facade_width
    \/ Call_extract_land_length
    \/ Call_extract_total_area
    \/ Call_estimate_remaining_quality
    \/ Call_extract_land_shape
    \/ Call_extract_distance_to_main_road
    \/ Call_parse_and_clean_number
    \/ Call_parse_and_clean_width
    \/ ApplyAgain
    \/ NextRow

Spec == Init /\ [][Next]_vars

\* the standardizer and the pipeline stage that uses it
NextAddress ==
    \/ Call_AddressStandardizer
    \/ Call_standardize_province
    \/ Call_standardize_district
    \/ Call_standardize_ward
    \/ Call_run_cleaning_pipeline
    \/ ApplyAgain
    \/ NextRow

SpecAddress == Init /\ [][NextAddress]_vars

\* feature engineering, and the scraping steps of main.py
NextPipeline ==
    \/ Call_get_location_category
    \/ Call_calculate_land_unit_price
    \/ Call_check_ham
    \/ Call_get_construction_cost
    \/ Call_retry
    \/ retry_attempt
    \/ Call_chunks
    \/ Call_scrape_listing_urls
    \/ scrape_listing_urls_page
    \/ Call_predict_alley_width_ml_step
    \/ NextRow

SpecPipeline == Init /\ [][NextPipeline]_vars

\* the page loop runs on its thread: every fetch returns or times out
SpecPipelineFair == SpecPipeline /\ WF_vars(scrape_listing_urls_page)

\* the calls of save_details_to_csv and the file they leave
NextSave ==
    \/ Call_save_details_to_csv
    \/ NextRow

SpecSave == Init /\ [][NextSave]_vars

\* the details step of main.py
NextScrape ==
    \/ Call_run_scrape_details
    \/ scrape_worker
    \/ as_completed
    \/ NextRow

SpecScrape == Init /\ [][NextScrape]_vars

----------------------------------------------------------------------------
(* Claims *)

\* C1: no field extractor raises, whatever the raw record: with title,
\* description, main_info or other_info absent, null or malformed it returns a
\* value (null or its default).
C1_NoExtractorRaises ==
    fn \in { "extract_total_area", "extract_num_floors", "extract_facade_width",
             "extract_land_length", "extract_alley_width", "extract_distance_to_main_road",
             "estimate_remaining_quality", "extract_land_shape" }
        => ~IsRaise(ret)

\* C2: is_on_main_road is two-stage and the near-but-not-on stage has
\* precedence: a text that a near pattern matches gives false whatever the
\* on-road patterns say; a text that no near pattern and some on-road pattern
\* matches gives true; every other text gives false.
C2_NearTakesPrecedence ==
    fn = "is_on_main_road" =>
        /\ NearButNotOn(row.s) => ret = Bool(FALSE)
        /\ ~NearButNotOn(row.s) /\ DirectMainRoad(row.s) => ret = Bool(TRUE)
        /\ ~NearButNotOn(row.s) /\ ~DirectMainRoad(row.s) => ret = Bool(FALSE)

\* a text that both stages match has been classified
C2_Witness ==
    /\ fn = "is_on_main_road"
    /\ NearButNotOn(row.s)
    /\ DirectMainRoad(row.s)
    /\ ret = Bool(FALSE)

\* C3: in extract_alley_width the main-road check comes first: whenever
\* is_on_main_road(title + description) holds the result is 0.0, whatever the
\* side panel, the alley phrases and the vehicle or descriptive keywords say.
C3_MainRoadFirst ==
    (fn = "extract_alley_width" /\ ~IsRaise(ret) /\ is_on_main_road(TitleAndDescription(row)))
        => ret = Num(0)

\* C4: extract_alley_width returns null or a width in [0, 15) metres,
\* whichever source produced it.
C4_PlausibleWidth ==
    (fn = "extract_alley_width" /\ ~IsRaise(ret))
        => (ret = None \/ (IsNum(ret) /\ 0 <= ret.n /\ ret.n < 1500))

\* C5: every extractor is a function of its one record: applied a second time
\* to the same row it returns what it returned the first time.
C5_SameOutputTwice == runs # "differs"

\* C6: extract_num_floors returns the default 1, never null and never an
\* error, for every record without floor information: no side-panel
\* "Số tầng" value, and a title and a description (empty strings included)
\* with no floor keyword, no trệt/lầu phrase and no single-story keyword.
C6_DefaultOneFloor ==
    LET floor_words == { "tang", "lau", "tAm", "me", "3tang", "2lau", "tret", "cap", "gac", "lung" }
        NoFloorWord(f) == f.k = "str" /\ \A i \in 1..Len(f.s) : f.s[i] \notin floor_words
        NoSidePanelValue(o) ==
            o.k = "absent" \/ (o.k \in {"dict", "json_obj"} /\ "So tang" \notin DOMAIN o.m)
    IN  (/\ fn = "extract_num_floors"
         /\ NoSidePanelValue(row.other_info)
         /\ NoFloorWord(row.title)
         /\ NoFloorWord(row.description))
            => ret = Num(100)

\* C7: when the side panel gives no "Số tầng" value and the title or the
\* description names a 4th-category house ("nhà cấp 4", also in the form
\* "nhà cấp 4 cũ"), extract_num_floors returns 1.
C7_Cap4OneFloor ==
    LET Names(f) == f.k = "str" /\ Contains(f.s, <<"nha", "cap", "4">>)
    IN  (/\ fn = "extract_num_floors"
         /\ ~IsRaise(ret)
         /\ "So tang" \notin DOMAIN row.other_info.m
         /\ Names(row.title) \/ Names(row.description))
            => ret = Num(100)

\* C8: for a record with no side-panel width or length and no width or
\* length keyword whose description holds a pair "A x B" after diện tích, dt
\* or kích thước, extract_facade_width returns min(A, B) and
\* extract_land_length returns max(A, B).
C8_FrontageAndDepth ==
    LET pair == size_match(row.description.s)
        A == parse_number_run(pair[2])
        B == parse_number_run(pair[3])
        keywords == { "rong", "ngang", "dai", "mat", "tien", "chieu" }
        PairOnly ==
            /\ row.other_info = Absent /\ row.main_info = Absent /\ row.title = Absent
            /\ \A i \in 1..Len(row.description.s) : row.description.s[i] \notin keywords
            /\ pair # <<>> /\ A # None /\ B # None
    IN  /\ (fn = "extract_facade_width" /\ PairOnly) => ret = Num(Min({A.n, B.n}))
        /\ (fn = "extract_land_length" /\ PairOnly) => ret = Num(Max({A.n, B.n}))

\* C9: estimate_remaining_quality returns the quality value of the tier that
\* owns the highest-scoring keyword match over all tiers and all keywords of
\* QUALITY_LEVELS, the score of a match being the fuzzy ratio of the keyword
\* and the matched span, plus 3 in the tiers 0.0 and 1.0.
C9_HighestScoringMatch ==
    LET text == FString(row.title) \o FString(row.description)
        Ratio(m) == KeywordRatio(text, QUALITY_LEVELS[m[1]].keywords[m[2]],
                                 FString(row.title) = <<>>, FString(row.description) = <<>>)
        matches == { m \in UNION { {q} \X (1..Len(QUALITY_LEVELS[q].keywords)) :
                                     q \in 1..Len(QUALITY_LEVELS) } : Ratio(m) # <<>> }
        Bonus(m) == IF QUALITY_LEVELS[m[1]].quality_val \in {0, 100} THEN 3 ELSE 0
        \* the score of a is below the score of b
        Below(a, b) ==
            (Ratio(a).num + Bonus(a) * Ratio(a).den) * Ratio(b).den
                < (Ratio(b).num + Bonus(b) * Ratio(b).den) * Ratio(a).den
        highest == { m \in matches : \A o \in matches : ~Below(m, o) }
    IN  (fn = "estimate_remaining_quality" /\ matches # {})
            => \E m \in highest : ret = Num(QUALITY_LEVELS[m[1]].quality_val)

\* C10: extract_land_shape returns the first category, in the order of
\* SHAPE_KEYWORDS, a keyword of which occurs in title + description outside
\* every negation window, and "Chữ nhật" when no category has such an
\* occurrence.
C10_FirstUnnegatedCategory ==
    LET text == FString(row.title) \o FString(row.description)
        Unnegated(kw) == \E i \in 1..Len(text) : Occurs(text, i, kw) /\ ~NegatedAt(text, kw, i)
        categories == { n \in 1..Len(SHAPE_KEYWORDS) :
                          \E k \in 1..Len(SHAPE_KEYWORDS[n].kws) : Unnegated(SHAPE_KEYWORDS[n].kws[k]) }
    IN  fn = "extract_land_shape" =>
            ret = IF categories # {} THEN Str(SHAPE_KEYWORDS[Min(categories)].shape)
                  ELSE Str("Chu nhat")

\* C11: no category of SHAPE_KEYWORDS is shadowed by an earlier one: for every
\* category a keyword of which a classified text holds, there is a text that
\* holds one of its keywords, with no negation marker before it, on which
\* extract_land_shape returns the category.  The texts tried are the
\* keywords of the category with at most one word before and one after.
C11_NoCategoryShadowed ==
    LET before == { <<>>, <<"dat">>, <<"hinh">> }
        after == { <<>>, <<",">>, <<"ngang">>, <<"dep", ",">> }
        TextsOf(n) ==
            { b \o SHAPE_KEYWORDS[n].kws[k] \o a :
                k \in 1..Len(SHAPE_KEYWORDS[n].kws), b \in before, a \in after }
        Returned(n) ==
            \E d \in TextsOf(n), t \in {Absent, Text(<<>>)} :
                extract_land_shape([title |-> t, description |-> Text(d)])
                    = Str(SHAPE_KEYWORDS[n].shape)
        Holds(n) ==
            /\ fn = "extract_land_shape"
            /\ \E k \in 1..Len(SHAPE_KEYWORDS[n].kws) :
                   \E i \in 1..Len(row.description.s) :
                       Occurs(row.description.s, i, SHAPE_KEYWORDS[n].kws[k])
    IN  \A n \in 1..Len(SHAPE_KEYWORDS) : Holds(n) => Returned(n)

\* C12: _parse_and_clean_number never raises.  It returns null for a value
\* that is no string and for a string with no run of digits, dots and commas;
\* otherwise it takes the first such run, drops the dots, reads the comma as
\* the decimal separator and returns the value rounded to 2 decimals, or null
\* when what is left is no number (two commas, no digit).
C12_NumberParsed ==
    LET run == Remove(FirstRun(row), ".")
        commas == { i \in 1..Len(run) : run[i] = "," }
        point == IF commas = {} THEN Len(run) + 1 ELSE Min(commas)
        whole == SubSeq(run, 1, point - 1)
        fraction == SubSeq(run, point + 1, Len(run))
        Digit(i) == IF i <= Len(fraction) THEN DigitVal(fraction[i]) ELSE 0
        hundredths == 100 * ToInt(whole) + 10 * Digit(1) + Digit(2) + (IF Digit(3) >= 5 THEN 1 ELSE 0)
        expected ==
            IF row = NotStr THEN None
            ELSE IF Cardinality(commas) > 1 \/ Len(run) = Cardinality(commas) THEN None
            ELSE Num(hundredths)
    IN  fn = "parse_and_clean_number" => ret = expected

\* "2,7" gives 2.7 and "2.777" gives 2777.0; a run with two commas gives null
C12_Witness ==
    /\ fn = "parse_and_clean_number"
    /\ \/ row = Chars(<<"2", ",", "7">>) /\ ret = Num(270)
       \/ row = Chars(<<"2", ".", "7", "7", "7">>) /\ ret = Num(277700)
       \/ row = Chars(<<"2", ",", "7", ",", "2">>) /\ ret = None

\* C13: parse_and_clean_width reads a run with a comma the Vietnamese way
\* (dots dropped, the comma the decimal separator) and takes the comma for a
\* thousands separator only when that reading exceeds 20 and the run holds a
\* comma and no dot; a run without a comma is read as it stands.
C13_CommaHeuristic ==
    LET num_str == FirstRun(row)
        vietnamese == parse_number_run(num_str)
        expected ==
            IF row = NotStr \/ num_str = <<>> THEN None
            ELSE IF ~Has(num_str, ",") THEN Float(num_str)
            ELSE IF vietnamese = None THEN None
            ELSE IF vietnamese.n > 2000 /\ ~Has(num_str, ".") THEN Float(Remove(num_str, ","))
            ELSE vietnamese
    IN  fn = "parse_and_clean_width" => ret = expected


\* C14: standardize_province returns the canonical name for an input that
\* is a known prefix-stripped province name (a key of reverse_province_map),
\* the input itself, unchanged, for a string that matches no key, with or
\* without its punctuation, and null for an input that is not a string.
C14_ProvinceContract ==
    fn = "standardize_province" =>
        LET known == Keys(address_std.reverse_province_map)
        IN  IF row.k # "str" THEN ret = None
            ELSE IF row.s \in known THEN ret = Str(Get(address_std.reverse_province_map, row.s))
            ELSE IF Strip(row.s, {".", ",", "?", "!"}) \in known THEN TRUE
            ELSE ret = Str(row.s)

\* C15: standardize_province is idempotent on strings, standardizing what it
\* returned returns the same again, and it returns every canonical province
\* name of the reference data as it is.
C15_ProvinceIdempotent ==
    (fn = "standardize_province" /\ row.k = "str") =>
        /\ ret.t = "str"
        /\ standardize_province(address_std, Text(ret.s)) = ret
        /\ (\E i \in 1..Len(AdminData.provinces) : AdminData.provinces[i] = row.s) => ret = Str(row.s)

\* a name with punctuation was mapped to its canonical name, or a canonical
\* name was standardized
C15_Witness ==
    /\ fn = "standardize_province"
    /\ \/ row = Text(<<"Ho Chi Minh", ".">>) /\ ret = Str(<<"Thanh pho ", "Ho Chi Minh">>)
       \/ row = Text(<<"Tinh ", "Ba Ria - Vung Tau">>) /\ ret = Str(<<"Tinh ", "Ba Ria - Vung Tau">>)
       \/ row = Text(<<"Hue", ",">>) /\ ret = Str(<<"Hue">>)

\* C16 as stated: standardize_district returns the district value verbatim
\* whenever it is a string that starts with a recognized prefix (Quan,
\* Huyen, Thanh pho, Thi xa), whatever the value and the province.
C16_PrefixedVerbatim ==
    (/\ fn = "standardize_district"
     /\ row.k = "row"
     /\ row.district.k = "str"
     /\ row.district.s # <<>>
     /\ row.district.s[1] \in {"Quan ", "Huyen ", "Thanh pho ", "Thi xa "})
        => ret = Str(row.district.s)

\* C16 amended: a district value that starts with a recognized prefix is
\* returned verbatim, whatever the province, except 'Quan 2' and 'Quan 9',
\* for which 'Thanh pho Thu Duc' is returned.
C16_PrefixedVerbatimOrMerged ==
    (/\ fn = "standardize_district"
     /\ row.k = "row"
     /\ row.district.k = "str"
     /\ row.district.s # <<>>
     /\ row.district.s[1] \in {"Quan ", "Huyen ", "Thanh pho ", "Thi xa "})
        => ret = IF row.district.s \in { <<"Quan ", "2">>, <<"Quan ", "9">> }
                 THEN Str(<<"Thanh pho ", "Thu Duc">>)
                 ELSE Str(row.district.s)

\* a prefixed district of a row without a province, or of an unknown
\* province, was returned as it is
C16_Witness ==
    /\ fn = "standardize_district"
    /\ row.k = "row"
    /\ row.district = Text(<<"Quan ", "x", "z">>)
    /\ row.province \in {Absent, Text(<<"Ha Noi">>)}
    /\ ret = Str(<<"Quan ", "x", "z">>)

\* C17: for a district value without a prefix and without an exact entry in
\* the map of its province, standardize_district returns the canonical name
\* of the district of that province with the highest ratio when that ratio is
\* at least 66, and null when every district scores 65 or less.
C17_BestFuzzyMatch ==
    (/\ fn = "standardize_district"
     /\ row.k = "row"
     /\ row.district.k = "str"
     /\ row.district.s # <<>>
     /\ row.district.s[1] # "Quan "
     /\ row.province.k = "str"
     /\ row.province.s \in Keys(address_std.reverse_district)
     /\ row.district.s \notin Keys(Get(address_std.reverse_district, row.province.s)))
        => LET d == Get(address_std.reverse_district, row.province.s)
               score(i) == ratio(row.district.s, d[i][1])
               AtLeast(a, b) == a.num * b.den >= b.num * a.den
               best == { i \in 1..Len(d) : \A j \in 1..Len(d) : AtLeast(score(i), score(j)) }
           IN  /\ (\E i \in best : score(i).num >= 66 * score(i).den)
                    => \E i \in best : ret = Str(d[i][2])
               /\ (\A i \in 1..Len(d) : score(i).num <= 65 * score(i).den) => ret = None

\* C18: standardize_district never raises, and for a row whose province is
\* missing, not a string or not a province of the reference data, and whose
\* district value carries no prefix, it returns null.
C18_DistrictNeverRaises ==
    fn = "standardize_district" =>
        /\ ~IsRaise(ret)
        /\ (/\ row.k = "row"
            /\ row.district.k = "str"
            /\ row.district.s # <<>>
            /\ row.district.s[1] # "Quan "
            /\ \/ row.province.k # "str"
               \/ row.province.s \notin Keys(address_std.reverse_district))
                => ret = None

\* C19: once the standardizer is constructed, no step, a call of
\* standardize_province, standardize_district or standardize_ward with any
\* argument and in any order included, changes reverse_province_map,
\* reverse_district or reverse_ward.
C19_TablesReadOnly ==
    [][address_std # None =>
        /\ address_std' # None
        /\ address_std'.reverse_province_map = address_std.reverse_province_map
        /\ address_std'.reverse_district = address_std.reverse_district
        /\ address_std'.reverse_ward = address_std.reverse_ward]_vars

\* a district was matched by similarity, twice over, and the tables are those
\* the construction built
C19_Witness ==
    /\ fn = "standardize_district"
    /\ row.k = "row"
    /\ row.district = Text(<<"x", "x", "y", "z">>)
    /\ ret = Str(<<"Quan ", "x", "y">>)
    /\ runs = "same"
    /\ address_std = load_data(AdminData)

\* C20: a failure to load the reference data is fatal to the standardizer
\* only.  Construction raises and leaves no instance, and whatever the
\* failure (a missing file or an SQL error) run_cleaning_pipeline completes
\* and writes the frame with province and district as they were extracted.
C20_LoadFailureSkipsStage ==
    /\ (fn = "AddressStandardizer" /\ row.files # "ok") => (IsRaise(ret) /\ address_std = None)
    /\ (fn = "run_cleaning_pipeline" /\ row.files # "ok")
            => (ret.t = "written" /\ ret.province = row.province /\ ret.district = row.district)


\* C21: get_location_category is a total function of the distance to the main
\* road and the alley width: null when the distance is null; "VT1" when the
\* distance is 0, whatever the alley width; otherwise null when the alley width
\* is null, "VT2" when it is at least 3.5 m, "VT3" from 2 m up to 3.5 m
\* and "VT4" under 2 m.
C21_LocationCategory ==
    fn = "get_location_category" =>
        LET null(c) == c \in {Absent, Null, NaN}
            d == row.distance
            a == row.alley_width
        IN  /\ null(d) => ret = None
            /\ (~null(d) /\ d.n = 0) => ret = Str(<<"VT1">>)
            /\ (~null(d) /\ d.n # 0 /\ null(a)) => ret = None
            /\ (~null(d) /\ d.n # 0 /\ ~null(a)) =>
                    /\ a.n >= 350 => ret = Str(<<"VT2">>)
                    /\ (200 <= a.n /\ a.n < 350) => ret = Str(<<"VT3">>)
                    /\ a.n < 200 => ret = Str(<<"VT4">>)

\* a row 50 m from the road on an alley of exactly 3.5 m is VT2
C21_Witness ==
    /\ fn = "get_location_category"
    /\ row.distance = [k |-> "num", n |-> 5000]
    /\ row.alley_width = [k |-> "num", n |-> 350]
    /\ ret = Str(<<"VT2">>)

\* C22: in calculate_land_unit_price, with every input present and the land
\* area and the floor area positive, when building_value = construction cost x
\* total floor area x remaining quality is at least the total price the result
\* is the full price divided by the land area; otherwise it is
\* (price - building_value) divided by the land area (to the hundredth).
C22_LandUnitPrice ==
    (/\ fn = "calculate_land_unit_price"
     /\ \A c \in {row.total_price, row.construction_cost_per_sqm, row.land_area,
                  row.remaining_quality, row.total_floor_area} : c.k = "num"
     /\ row.land_area.n > 0
     /\ row.total_floor_area.n > 0)
        => LET building_value == row.construction_cost_per_sqm.n * row.total_floor_area.n
                                    * row.remaining_quality.n
           IN  ret = IF building_value >= 100 * row.total_price.n
                     THEN Num(Round2(row.total_price.n, row.land_area.n))
                     ELSE Num(Round2(100 * row.total_price.n - building_value,
                                     100 * row.land_area.n))


\* C23: the basement tests of the construction cost (check_ham, and the test
\* inside get_construction_cost) report no basement when every "hầm" of the
\* text is preceded, within the window of seven words, by a permit or a
\* hypothetical-construction phrase ("được phép xây hầm", "giấy phép xây dựng
\* ... hầm"), even if a floor count or another corroborating term follows.
C23_PermittedBasementIgnored ==
    LET Permitted(text) ==
            \A h \in 1..Len(text) :
                text[h] = "ham" =>
                    \E p \in { <<"duoc", "xay">>, <<"duoc", "phep", "xay">>,
                               <<"giay", "phep", "xay", "dung">>, <<"gpxd">>, <<"cai", "tao">> } :
                        \E s \in (h - 7)..(h - 1) : Occurs(text, s, p) /\ s + Len(p) <= h
    IN  /\ (fn = "check_ham" /\ Permitted(row.s)) => ret = Bool(FALSE)
        /\ (fn = "get_construction_cost" /\ Permitted(TitleAndDescription(row)))
                => ret \notin { Str(<<"biet_thu_co_ham">>), Str(<<"nha_gte_2_tang_co_ham">>) }


\* C24: a function wrapped by retry(max_tries, delay_seconds, backoff) is
\* invoked at most max_tries times per call of the wrapper; the wrapper returns
\* the result of the first invocation that raises no Exception, returns None
\* once max_tries invocations have raised, never propagates an Exception of
\* the wrapped function, and sleeps delay_seconds x backoff^(k-1) after the
\* k-th failure only when another attempt follows.
C24_RetryContract ==
    (pc = "retry" \/ fn = "retry") =>
        LET calls == SelectSeq(trace, LAMBDA x : x.e = "call")
            n == Len(calls)
            Failed(i) == trace[i].e = "call" /\ trace[i].out = Raise("Exception")
            \* trace[i] is the k-th failure
            k(i) == Cardinality({ j \in 1..i : Failed(j) })
        IN  /\ n <= row.max_tries
            /\ \A i \in 1..(n - 1) : calls[i].out = Raise("Exception")
            /\ fn = "retry" =>
                /\ ret # Raise("Exception")
                /\ (n > 0 /\ ~IsRaise(calls[n].out)) => ret = calls[n].out
                /\ (n = 0 \/ calls[n].out = Raise("Exception")) => (ret = None /\ n = row.max_tries)
                /\ trace # <<>> => trace[Len(trace)].e = "call"
            /\ \A i \in 1..Len(trace) :
                /\ Failed(i) =>
                        IF k(i) < row.max_tries
                        THEN /\ i < Len(trace)
                             /\ trace[i + 1] = [e |-> "sleep",
                                                s |-> row.delay_seconds * (row.backoff ^ (k(i) - 1))]
                        ELSE i = Len(trace)
                /\ trace[i].e = "sleep" => (i > 1 /\ Failed(i - 1))

\* three failures of scrape_listing_details under retry(max_tries=3,
\* delay_seconds=5): sleeps of 5 s and 10 s, none after the third, and None
C24_Witness ==
    /\ fn = "retry"
    /\ row = [k |-> "retry", max_tries |-> 3, delay_seconds |-> 5, backoff |-> 2]
    /\ ret = None
    /\ trace = << [e |-> "call", out |-> Raise("Exception")], [e |-> "sleep", s |-> 5],
                  [e |-> "call", out |-> Raise("Exception")], [e |-> "sleep", s |-> 10],
                  [e |-> "call", out |-> Raise("Exception")] >>


C27_DetailsFile ==
    /\ [](LET RECURSIVE SavedRecords(_)
              SavedRecords(i) == IF i > Len(saved) THEN <<>>
                                 ELSE saved[i].details \o SavedRecords(i + 1)
              nonempty == { i \in DOMAIN saved : saved[i].details # <<>> }
              last == CHOOSE i \in nonempty : \A j \in nonempty : j <= i
          IN  /\ (\A i \in DOMAIN saved : saved[i].append_mode) =>
                    file = IF nonempty = {} THEN None
                           ELSE << [t |-> "header"] >> \o SavedRecords(1)
              /\ (\A i \in DOMAIN saved : ~saved[i].append_mode) =>
                    file = IF nonempty = {} THEN None
                           ELSE << [t |-> "header"] >> \o saved[last].details)
    /\ [][(Len(saved') = Len(saved) + 1 /\ saved'[Len(saved')].details = <<>>)
            => file' = file]_vars

\* two calls with append_mode true and records have been made
C27_Witness ==
    /\ Len(saved) = 2
    /\ \A i \in DOMAIN saved : saved[i].append_mode /\ saved[i].details # <<>>
    /\ Len(file) >= 3
    /\ file[1] = [t |-> "header"]


\* C26: in run_scrape_details, under every order in which the workers finish
\* and are read, details_all holds exactly the records of the workers read so
\* far that returned, each once, whatever the other workers raised; nothing is
\* saved while a worker is unread; and at the return every future was read and
\* save_details_to_csv was called once, with details_all.
C26_WorkersIsolated ==
    LET records == { details_all[i] : i \in DOMAIN details_all }
        returned == { w \in DOMAIN futures :
                        futures[w].state = "read" /\ ~IsRaise(futures[w].result) }
        ReturnedRecords ==
            UNION { { futures[w].result.v[i] : i \in DOMAIN futures[w].result.v } :
                    w \in returned }
    IN  /\ (pc = "workers" \/ (fn = "run_scrape_details" /\ row.urls # <<>>)) =>
              /\ records = ReturnedRecords
              /\ Cardinality(records) = Len(details_all)
        /\ pc = "workers" => Len(saved) = row.saved_before
        /\ (fn = "run_scrape_details" /\ row.urls # <<>>) =>
              /\ \A w \in DOMAIN futures : futures[w].state = "read"
              /\ Len(saved) = row.saved_before + 1
              /\ saved[Len(saved)].details = details_all

\* run_scrape_details returned after one worker raised and another returned
\* records
C26_Witness ==
    /\ fn = "run_scrape_details"
    /\ Len(futures) = 3
    /\ \E w \in DOMAIN futures : IsRaise(futures[w].result)
    /\ \E w \in DOMAIN futures : ~IsRaise(futures[w].result) /\ futures[w].result.v # <<>>
    /\ details_all # <<>>
    /\ file # None


\* C28: scrape_listing_urls returns whenever the site has finitely many
\* listings; a turn of its page loop ends the loop exactly when the wait
\* timed out or the page showed no URL that was not collected yet, and else
\* appends the page's new URLs, each once, in the order they are first seen;
\* so urls, and the list returned, hold each URL seen on the pages exactly
\* once.
C28_ListingUrls ==
    /\ (pc = "urls" ~> fn = "scrape_listing_urls")
    /\ [](pc = "urls" \/ fn = "scrape_listing_urls" =>
            /\ Range(urls) = row.seen
            /\ Cardinality(Range(urls)) = Len(urls)
            /\ fn = "scrape_listing_urls" => ret = [t |-> "list", v |-> urls])
    /\ [][pc = "urls" /\ row' # row =>
            LET page == row'.page.links
                Url(i) == <<BASE_URL, "/", page[i][Len(page[i])]>>
                first == { i \in DOMAIN page :
                             /\ page[i] # <<>>
                             /\ Url(i) \notin Range(urls)
                             /\ \A j \in 1..(i - 1) : page[j] = <<>> \/ Url(j) # Url(i) }
                new == SelectSeq([i \in DOMAIN page |-> IF i \in first THEN <<Url(i)>> ELSE <<>>],
                                 LAMBDA u : u # <<>>)
            IN  IF row'.page.wait = "timeout" \/ first = {}
                THEN urls' = urls /\ pc' = "idle" /\ fn' = "scrape_listing_urls"
                ELSE /\ urls' = urls \o [i \in DOMAIN new |-> new[i][1]]
                     /\ pc' = "urls"
                     /\ page_number' = page_number + 1]_vars

\* the call returned both listings at its third page, which showed links in
\* both forms and nothing new
C28_Witness ==
    /\ fn = "scrape_listing_urls"
    /\ Len(ret.v) = 2
    /\ page_number = 3
    /\ row.page.wait = "found"
    /\ \E i, j \in DOMAIN row.page.links :
          Len(row.page.links[i]) = 2 /\ Len(row.page.links[j]) = 3


C30_OnlyMissingAlleyWidths ==
    (fn = "_predict_alley_width_ml_step" /\ ~IsRaise(ret)) =>
        LET df == row.df
            out == ret.rows
        IN  /\ DOMAIN out = DOMAIN df
            /\ \A i \in DOMAIN df :
                /\ df[i].alley # NaN => out[i].alley = df[i].alley
                /\ out[i].price = df[i].price
                /\ df[i].alley = NaN /\ out[i].alley # NaN => out[i].alley.n >= 0
            /\ (row.train < MinTrain \/ \A i \in DOMAIN df : df[i].alley # NaN) => out = df

\* with 50 training records a missing width got a prediction below 0 and
\* was filled with 0, next to a row that kept its width
C30_Witness ==
    /\ fn = "_predict_alley_width_ml_step"
    /\ row.train = MinTrain
    /\ Len(row.df) = 2
    /\ row.df[1].alley = NaN
    /\ row.predicted[1] < 0
    /\ ret.rows[1].alley = [k |-> "num", n |-> 0]
    /\ row.df[2].alley = [k |-> "num", n |-> 300]
    /\ ret.rows[2] = row.df[2]

====
